---- MODULE Spec2Model ----
(***************************************************************************)
(* A model of lava_torrent's TorrentBuilder (src/torrent/v1/build.rs) and  *)
(* of its parsers of tracker replies (src/tracker/mod.rs).                 *)
(*                                                                         *)
(* The builder:                                                            *)
(* the builder's fields and setters, the seven validations of build(),     *)
(* the directory listing, the sort, and the piece hashing of read_file()   *)
(* and read_dir(), over a small file system with directories, regular      *)
(* files, hidden entries and symbolic links.                               *)
(*                                                                         *)
(* Strings and file names are sequences of bytes (numbers), Option<T> is a *)
(* sequence of length 0 (None) or 1 (Some), a HashMap is a function, and   *)
(* SHA-1 is an injective function of the chunk it is given.                *)
(*                                                                         *)
(* The tracker module: TrackerResponse::from_bytes with both forms of      *)
(* peers, and TrackerScrapeResponse::from_bytes, on the bencode values the *)
(* parser hands them.                                                      *)
(*                                                                         *)
(* Bencode values (src/bencode/mod.rs): the six variants and their derived *)
(* equality.                                                               *)
(***************************************************************************)
EXTENDS Integers, Sequences, FiniteSets, TLC

\* the builder, the file system and the results of build(); the body of a
\* tracker's reply (or the two bencode values to compare) and the result of
\* parsing it (or of comparing them)
VARIABLES builder, fs, runs, body, parsed

vars == <<builder, fs, runs, body, parsed>>

----------------------------------------------------------------------------
(* Bounds of the model. *)

\* the longest file content
MaxFileLen == 2
\* how many times build() is run on (clones of) one configuration
MaxRuns == 2
\* the longest peer id of a peer in dictionary form
MaxPeerIdLen == 3
\* the most records of compact peers
MaxCompactPeers == 2

----------------------------------------------------------------------------
(* Option<T>, strings, bencode values *)

None == <<>>
Some(x) == <<x>>
IsSome(o) == Len(o) = 1
Unwrap(o) == o[1]

\* "u", "n", "k", "private" as bytes
StrU == <<117>>
StrN == <<110>>
StrK == <<107>>
StrPrivate == <<112, 114, 105, 118, 97, 116, 101>>
Dot == 46

\* a BencodeElem: its variant and, in the field of that variant, what it holds
BencodeElem(tag, int, bytes, list, dict) ==
    [tag |-> tag, int |-> int, bytes |-> bytes, list |-> list, dict |-> dict]
BInteger(n) == BencodeElem("Integer", n, <<>>, <<>>, <<>>)

\* lexicographic order on byte strings (Ord for [u8] / OsStr)
RECURSIVE BytesLess(_, _)
BytesLess(a, b) ==
    IF b = <<>> THEN FALSE
    ELSE IF a = <<>> THEN TRUE
    ELSE IF Head(a) < Head(b) THEN TRUE
    ELSE IF Head(a) > Head(b) THEN FALSE
    ELSE BytesLess(Tail(a), Tail(b))

\* str::starts_with('.')
StartsWithDot(s) == Len(s) > 0 /\ s[1] = Dot

----------------------------------------------------------------------------
(* Paths: a PathBuf is the sequence of its components *)

RootDir == [kind |-> "RootDir", name |-> <<>>]
ParentDir == [kind |-> "ParentDir", name |-> <<>>]
Normal(s) == [kind |-> "Normal", name |-> s]

RECURSIVE AbsPath(_)
\* the PathBuf of a canonical path, given as the sequence of its names
AbsPath(names) ==
    IF names = <<>> THEN <<RootDir>>
    ELSE Append(AbsPath(SubSeq(names, 1, Len(names) - 1)), Normal(names[Len(names)]))

\* Path::is_absolute
is_absolute(path) == Len(path) > 0 /\ path[1].kind = "RootDir"

\* the names of a path's Normal components, in order
RECURSIVE NormalNames(_)
NormalNames(path) ==
    IF path = <<>> THEN <<>>
    ELSE IF Head(path).kind = "Normal"
         THEN <<Head(path).name>> \o NormalNames(Tail(path))
         ELSE NormalNames(Tail(path))

\* the path as one string: every name after a '/'
RECURSIVE PathString(_)
PathString(p) ==
    IF p = <<>> THEN <<>> ELSE <<47>> \o Head(p) \o PathString(Tail(p))

\* a slip: the paths compared as strings, byte by byte
PathLess_AsStrings(p, q) == BytesLess(PathString(p), PathString(q))

\* Ord for Path, on canonical paths given as the sequences of their names:
\* component by component, each name byte-wise
RECURSIVE PathLess(_, _)
PathLess(p, q) ==
    IF q = <<>> THEN FALSE
    ELSE IF p = <<>> THEN TRUE
    ELSE IF Head(p) = Head(q) THEN PathLess(Tail(p), Tail(q))
    ELSE BytesLess(Head(p), Head(q))

----------------------------------------------------------------------------
(* The file system: a function from canonical paths (sequences of names)   *)
(* to nodes.  A symbolic link holds the canonical path it points to.       *)

\* a u64 in two halves of 32 bits: hi * 2^32 + lo
U64(hi, lo) == [hi |-> hi, lo |-> lo]

\* `size` is the length metadata() reports and `readable` whether the
\* node can be opened and read to its end
Dir == [kind |-> "dir", content |-> <<>>, target |-> <<>>, size |-> U64(0, 0), readable |-> TRUE]
FileNode(bytes, size, readable) ==
    [kind |-> "file", content |-> bytes, target |-> <<>>, size |-> size, readable |-> readable]
RegFile(bytes) == FileNode(bytes, U64(0, Len(bytes)), TRUE)
Symlink(to) ==
    [kind |-> "symlink", content |-> <<>>, target |-> to, size |-> U64(0, 0), readable |-> TRUE]

\* names: d, a, "a-", b, ".h", s, l, lf, nx
NmD == <<100>>
NmA == <<97>>
NmADash == <<97, 45>>
NmB == <<98>>
NmHidden == <<46, 104>>
NmS == <<115>>
NmL == <<108>>
NmLF == <<108, 102>>
NmNX == <<110, 120>>

\* the regular files a tree may hold, each with the first byte of its content
CandidateFiles == {<<NmD, NmA, NmB>>, <<NmD, NmADash>>, <<NmD, NmB>>}
Seed(p) == IF p = <<NmD, NmA, NmB>> THEN 10 ELSE IF p = <<NmD, NmADash>> THEN 20 ELSE 30
Content(p, n) == [i \in 1..n |-> Seed(p) + i]

\* what every tree holds: /d, /d/a, the hidden file /d/a/.h, the links
\* /d/s -> /d/b, /l -> /d and /lf -> /d/a-
FsBase ==
    (<<>> :> Dir) @@ (<<NmD>> :> Dir) @@ (<<NmD, NmA>> :> Dir)
    @@ (<<NmD, NmA, NmHidden>> :> RegFile(<<41>>))
    @@ (<<NmD, NmS>> :> Symlink(<<NmD, NmB>>))
    @@ (<<NmL>> :> Symlink(<<NmD>>))
    @@ (<<NmLF>> :> Symlink(<<NmD, NmADash>>))

MkFs(P, len) == [p \in P |-> RegFile(Content(p, len[p]))] @@ FsBase

FsSet == UNION {{MkFs(P, len) : len \in [P -> 0..MaxFileLen]} : P \in SUBSET CandidateFiles}

\* is `p` a proper or improper prefix of `q`
IsPrefix(p, q) == Len(p) <= Len(q) /\ SubSeq(q, 1, Len(p)) = p

\* the names of the entries of directory `dir`
Children(f, dir) == {p[Len(p)] : p \in {q \in DOMAIN f : Len(q) = Len(dir) + 1 /\ IsPrefix(dir, q)}}

\* the directories at or below `root`
DirsUnder(f, root) == {p \in DOMAIN f : f[p].kind = "dir" /\ IsPrefix(root, p)}

\* follow `rest` from the canonical directory `cur`, resolving links
RECURSIVE ResolveFrom(_, _, _)
ResolveFrom(f, cur, rest) ==
    IF rest = <<>> THEN Some(cur)
    ELSE LET nxt == Append(cur, Head(rest)) IN
         IF nxt \notin DOMAIN f THEN None
         ELSE IF f[nxt].kind = "symlink"
              THEN IF f[nxt].target \in DOMAIN f /\ f[f[nxt].target].kind # "symlink"
                   THEN ResolveFrom(f, f[nxt].target, Tail(rest))
                   ELSE None
         ELSE IF f[nxt].kind = "file" /\ Tail(rest) # <<>> THEN None
         ELSE ResolveFrom(f, nxt, Tail(rest))

\* Path::canonicalize of an absolute path without `..`
canonicalize(f, path) == ResolveFrom(f, <<>>, NormalNames(path))

\* Path::exists: the path resolves, links followed
exists(f, path) == IsSome(canonicalize(f, path))

\* a slip: metadata() for symlink_metadata(), so that a link is followed
symlink_metadata_Followed(f, path) ==
    IF IsSome(canonicalize(f, path)) THEN Some(f[Unwrap(canonicalize(f, path))].kind)
    ELSE None

\* Path::symlink_metadata().file_type(): the last component is not followed
symlink_metadata(f, path) ==
    LET names == NormalNames(path) IN
    IF names = <<>> THEN Some("dir")
    ELSE LET parent == ResolveFrom(f, <<>>, SubSeq(names, 1, Len(names) - 1)) IN
         IF ~IsSome(parent) THEN None
         ELSE LET node == Append(Unwrap(parent), names[Len(names)]) IN
              IF node \in DOMAIN f THEN Some(f[node].kind) ELSE None

----------------------------------------------------------------------------
(* TorrentBuilder: the constructor and the setters *)

\* TorrentBuilder::new; the other fields take their Default
New(announce, path, piece_length) ==
    [announce |-> announce, announce_list |-> None, name |-> None,
     path |-> path, piece_length |-> piece_length,
     extra_fields |-> None, extra_info_fields |-> None, is_private |-> FALSE]

\* a slip: the struct built afresh, the list of trackers taking its default
set_announce_ListDropped(b, announce) ==
    [b EXCEPT !.announce = announce, !.announce_list = None]

set_announce(b, announce) == [b EXCEPT !.announce = announce]
set_announce_list(b, announce_list) == [b EXCEPT !.announce_list = Some(announce_list)]
set_name(b, name) == [b EXCEPT !.name = Some(name)]
set_path(b, path) == [b EXCEPT !.path = path]
set_piece_length(b, piece_length) == [b EXCEPT !.piece_length = piece_length]
set_privacy(b, is_private) == [b EXCEPT !.is_private = is_private]

\* HashMap::insert
Insert(m, key, val) == (key :> val) @@ m

\* Option::get_or_insert_with(HashMap::new)
GetOrInsertEmpty(o) == IF IsSome(o) THEN Unwrap(o) ELSE <<>>

\* a slip: the map made, the insert left out
add_extra_field_NothingInserted(b, key, val) ==
    [b EXCEPT !.extra_fields = Some(GetOrInsertEmpty(b.extra_fields))]

add_extra_field(b, key, val) ==
    [b EXCEPT !.extra_fields = Some(Insert(GetOrInsertEmpty(b.extra_fields), key, val))]
add_extra_info_field(b, key, val) ==
    [b EXCEPT !.extra_info_fields =
        Some(Insert(GetOrInsertEmpty(b.extra_info_fields), key, val))]

----------------------------------------------------------------------------
(* The validations of build().  Each yields Ok, an Err of a kind, or a     *)
(* panic; `msg` names the check that failed.                               *)

Ok == [res |-> "Ok", kind |-> "None", msg |-> "ok"]
Failure(msg) == [res |-> "Err", kind |-> "TorrentBuilderFailure", msg |-> msg]
IOError(msg) == [res |-> "Err", kind |-> "IOError", msg |-> msg]
Panic(msg) == [res |-> "Panic", kind |-> "None", msg |-> msg]

validate_announce(b) ==
    IF b.announce = <<>> THEN Failure("announce: length is 0") ELSE Ok

\* the loop over the tiers: the first empty tier, or the first tier with
\* an empty url, fails
RECURSIVE validate_tiers(_)
validate_tiers(al) ==
    IF al = <<>> THEN Ok
    ELSE IF Head(al) = <<>> THEN Failure("announce_list: a tier is empty")
    ELSE IF \E i \in 1..Len(Head(al)) : Head(al)[i] = <<>>
         THEN Failure("announce_list: a tier contains a 0-length url")
    ELSE validate_tiers(Tail(al))

validate_announce_list(b) ==
    IF IsSome(b.announce_list)
    THEN IF Unwrap(b.announce_list) = <<>> THEN Failure("announce_list: empty")
         ELSE validate_tiers(Unwrap(b.announce_list))
    ELSE Ok

validate_name(b) ==
    IF IsSome(b.name)
    THEN IF Unwrap(b.name) = <<>> THEN Failure("name: length is 0") ELSE Ok
    ELSE Ok

\* a slip: hidden components let through
RECURSIVE validate_components_NoHidden(_)
validate_components_NoHidden(path) ==
    IF path = <<>> THEN Ok
    ELSE IF Head(path).kind = "ParentDir" THEN Failure("path: contains ..")
    ELSE validate_components_NoHidden(Tail(path))

\* the first component that is `..` or hidden decides; then is_absolute,
\* then exists
RECURSIVE validate_components(_)
validate_components(path) ==
    IF path = <<>> THEN Ok
    ELSE IF Head(path).kind = "ParentDir" THEN Failure("path: contains ..")
    ELSE IF Head(path).kind = "Normal" /\ StartsWithDot(Head(path).name)
         THEN Failure("path: contains hidden components")
    ELSE validate_components(Tail(path))

validate_path(b, f) ==
    IF validate_components(b.path) # Ok THEN validate_components(b.path)
    ELSE IF ~is_absolute(b.path) THEN Failure("path: not absolute")
    ELSE IF exists(f, b.path) THEN Ok
    ELSE Failure("path: does not point to anything")

\* a & b on non-negative integers
RECURSIVE BitAnd(_, _)
BitAnd(a, b) ==
    IF a = 0 \/ b = 0 THEN 0
    ELSE (IF a % 2 = 1 /\ b % 2 = 1 THEN 1 ELSE 0) + 2 * BitAnd(a \div 2, b \div 2)

\* a slip: the power-of-two check left out
validate_piece_length_SignOnly(b) ==
    IF b.piece_length <= 0 THEN Failure("piece_length: <= 0") ELSE Ok

validate_piece_length(b) ==
    IF b.piece_length <= 0 THEN Failure("piece_length: <= 0")
    ELSE IF BitAnd(b.piece_length, b.piece_length - 1) # 0
         THEN Failure("piece_length: not a power of 2")
    ELSE Ok

\* a slip: an empty map reported as a TorrentBuilderFailure
validate_extra_fields_EmptyIsFailure(b) ==
    IF IsSome(b.extra_fields)
    THEN IF DOMAIN Unwrap(b.extra_fields) = {} THEN Failure("extra_fields: empty")
         ELSE IF <<>> \in DOMAIN Unwrap(b.extra_fields)
              THEN Failure("extra_fields: contains a 0-length key")
         ELSE Ok
    ELSE Ok

validate_extra_fields(b) ==
    IF IsSome(b.extra_fields)
    THEN IF DOMAIN Unwrap(b.extra_fields) = {} THEN Panic("extra_fields: empty")
         ELSE IF <<>> \in DOMAIN Unwrap(b.extra_fields)
              THEN Failure("extra_fields: contains a 0-length key")
         ELSE Ok
    ELSE Ok

\* a slip: the keys left unchecked
validate_extra_info_fields_NoKeyCheck(b) ==
    IF IsSome(b.extra_info_fields)
    THEN IF DOMAIN Unwrap(b.extra_info_fields) = {} THEN Panic("extra_info_fields: empty")
         ELSE Ok
    ELSE Ok

validate_extra_info_fields(b) ==
    IF IsSome(b.extra_info_fields)
    THEN IF DOMAIN Unwrap(b.extra_info_fields) = {} THEN Panic("extra_info_fields: empty")
         ELSE IF <<>> \in DOMAIN Unwrap(b.extra_info_fields)
              THEN Failure("extra_info_fields: contains a 0-length key")
         ELSE Ok
    ELSE Ok

\* the `?` chain at the head of build(): the first result that is not Ok
Validate(b, f) ==
    IF validate_announce(b) # Ok THEN validate_announce(b)
    ELSE IF validate_announce_list(b) # Ok THEN validate_announce_list(b)
    ELSE IF validate_name(b) # Ok THEN validate_name(b)
    ELSE IF validate_path(b, f) # Ok THEN validate_path(b, f)
    ELSE IF validate_piece_length(b) # Ok THEN validate_piece_length(b)
    ELSE IF validate_extra_fields(b) # Ok THEN validate_extra_fields(b)
    ELSE validate_extra_info_fields(b)

----------------------------------------------------------------------------
(* Listing, sorting and hashing *)

\* Path::file_name as a String: the last component when it is Normal
last_component(path) ==
    IF path # <<>> /\ path[Len(path)].kind = "Normal"
    THEN [res |-> Ok, val |-> path[Len(path)].name]
    ELSE [res |-> Failure("path: ends in .."), val |-> <<>>]

\* SHA-1 of a chunk: the digest stands for the bytes it was computed from
Sha1(chunk) == [sha1 |-> chunk]

\* slice::chunks(n): consecutive chunks of n bytes, the last one shorter
RECURSIVE Chunks(_, _)
Chunks(bytes, n) ==
    IF bytes = <<>> THEN <<>>
    ELSE IF Len(bytes) <= n THEN <<bytes>>
    ELSE <<SubSeq(bytes, 1, n)>> \o Chunks(SubSeq(bytes, n + 1, Len(bytes)), n)

\* the digests of the chunks, in order
HashChunks(chunks) == [i \in 1..Len(chunks) |-> Sha1(chunks[i])]

\* usize::value_from of the u64 of the metadata, on a target whose usize has
\* 32 bits (on one of 64 bits every u64 fits)
usize_from_u64(n) == IF n.hi = 0 THEN Some(n.lo) ELSE None

\* usize::value_from of the i64 piece_length; those of the model are all
\* below 2^32
usize_from_i64(n) == IF n >= 0 THEN Some(n) ELSE None

\* i64::value_from of a usize of 32 bits: it always fits
i64_from_usize(n) == Some(n)

\* the `?` on the io::Result of File::open and read_to_end
From_io_Error(msg) == IOError(msg)

\* what read_file leaves: its result, the length and pieces when it is Ok,
\* whether the file was opened, and how many bytes of it `bytes` held
FileResult(r, length, pieces, opened, buffered) ==
    [res |-> r, length |-> length, pieces |-> pieces, opened |-> opened, buffered |-> buffered]

\* a slip: the test of bytes_read against the length of the metadata left
\* out
read_file_NoSizeTest(f, path, piece_length) ==
    LET bytes == f[path].content IN
    IF ~IsSome(usize_from_u64(f[path].size))
    THEN FileResult(IOError("length does not fit into usize"), 0, <<>>, FALSE, 0)
    ELSE IF ~IsSome(usize_from_i64(piece_length))
         THEN FileResult(IOError("piece_length does not fit into usize"), 0, <<>>, FALSE, 0)
    ELSE IF ~f[path].readable THEN FileResult(From_io_Error("read"), 0, <<>>, TRUE, 0)
    ELSE FileResult(Ok, Len(bytes), HashChunks(Chunks(bytes, piece_length)), TRUE, Len(bytes))

\* read_file: the two lengths are converted, the whole file is read into
\* `bytes`, its length compared with that of the metadata, and `bytes`
\* hashed chunk by chunk
read_file(f, path, piece_length) ==
    LET bytes == f[path].content
        length == usize_from_u64(f[path].size)
    IN
    IF ~IsSome(length)
    THEN FileResult(IOError("length does not fit into usize"), 0, <<>>, FALSE, 0)
    ELSE IF ~IsSome(usize_from_i64(piece_length))
         THEN FileResult(IOError("piece_length does not fit into usize"), 0, <<>>, FALSE, 0)
    ELSE IF ~f[path].readable THEN FileResult(From_io_Error("read"), 0, <<>>, TRUE, 0)
    ELSE IF Len(bytes) # Unwrap(length)
         THEN FileResult(IOError("# of bytes read from file != file size"), 0, <<>>,
                         TRUE, Len(bytes))
    ELSE IF ~IsSome(i64_from_usize(Unwrap(length)))
         THEN FileResult(IOError("length does not fit into i64"), 0, <<>>, TRUE, Len(bytes))
    ELSE FileResult(Ok, Unwrap(i64_from_usize(Unwrap(length))),
                    HashChunks(Chunks(bytes, Unwrap(usize_from_i64(piece_length)))),
                    TRUE, Len(bytes))

\* a slip: the test of the leading '.' left out, so that hidden entries are
\* listed and hidden directories descended
RECURSIVE list_entries_HiddenKept(_, _, _, _)
list_entries_HiddenKept(f, dir, ord, i) ==
    IF i > Len(ord[dir]) THEN <<>>
    ELSE LET path == Append(dir, ord[dir][i]) IN
         (IF f[path].kind = "dir" THEN list_entries_HiddenKept(f, path, ord, 1)
          ELSE IF f[path].kind = "file" THEN <<path>>
          ELSE <<>>)
         \o list_entries_HiddenKept(f, dir, ord, i + 1)

\* list_dir: the entries of `dir`, met in the order ord[dir] in which the
\* file system yields their names; hidden entries and links are skipped,
\* directories descended
RECURSIVE list_dir(_, _, _)
RECURSIVE list_entries(_, _, _, _)
list_entries(f, dir, ord, i) ==
    IF i > Len(ord[dir]) THEN <<>>
    ELSE LET path == Append(dir, ord[dir][i]) IN
         (IF StartsWithDot(ord[dir][i]) THEN <<>>
          ELSE IF f[path].kind = "dir" THEN list_dir(f, path, ord)
          ELSE IF f[path].kind = "file" THEN <<path>>
          ELSE <<>>)
         \o list_entries(f, dir, ord, i + 1)

list_dir(f, dir, ord) == list_entries(f, dir, ord, 1)

\* Vec<PathBuf>::sort
RECURSIVE InsertSorted(_, _)
InsertSorted(sorted, p) ==
    IF sorted = <<>> THEN <<p>>
    ELSE IF PathLess(p, Head(sorted)) THEN <<p>> \o sorted
    ELSE <<Head(sorted)>> \o InsertSorted(Tail(sorted), p)

RECURSIVE sort(_)
sort(entries) ==
    IF entries = <<>> THEN <<>>
    ELSE InsertSorted(sort(SubSeq(entries, 1, Len(entries) - 1)), entries[Len(entries)])

\* the File of an entry: its length and its last component
FileOf(f, entry, piece_length) ==
    [length |-> read_file(f, entry, piece_length).length,
     path |-> last_component(AbsPath(entry)).val,
     extra_fields |-> None]

\* a slip: `total_length = length` for `total_length += length`
SumLengths_LastOnly(files) ==
    IF files = <<>> THEN 0 ELSE files[Len(files)].length

RECURSIVE SumLengths(_)
SumLengths(files) ==
    IF files = <<>> THEN 0 ELSE Head(files).length + SumLengths(Tail(files))

RECURSIVE ConcatPieces(_, _, _)
\* all_pieces: each file's pieces, appended file by file
ConcatPieces(f, entries, piece_length) ==
    IF entries = <<>> THEN <<>>
    ELSE read_file(f, Head(entries), piece_length).pieces
         \o ConcatPieces(f, Tail(entries), piece_length)

\* what is kept of a listing: how many entries it returned, which, and
\* whether the file system happened to yield them in sorted order
Listing(listed) ==
    [n |-> Len(listed), entries |-> {listed[i] : i \in 1..Len(listed)},
     in_order |-> listed = sort(listed)]

NoListing == Listing(<<>>)

\* the first entry on which read_file fails, 0 when there is none
FirstFailure(f, entries, piece_length) ==
    LET bad == {i \in 1..Len(entries) : read_file(f, entries[i], piece_length).res # Ok} IN
    IF bad = {} THEN 0 ELSE CHOOSE i \in bad : \A j \in bad : i <= j

\* the largest of the numbers ns, 0 when there is none
Largest(ns) == IF ns = {} THEN 0 ELSE CHOOSE n \in ns : \A m \in ns : m <= n

\* the loop of read_dir over `entries`: read_file on each in turn, its File
\* pushed, its length added and its pieces appended; the `?` leaves the
\* loop at the first entry on which read_file fails
DirResult(f, listed, entries, piece_length) ==
    LET k == FirstFailure(f, entries, piece_length)
        done == IF k = 0 THEN entries ELSE SubSeq(entries, 1, k - 1)
        tried == IF k = 0 THEN entries ELSE SubSeq(entries, 1, k)
        files == [i \in 1..Len(done) |-> FileOf(f, done[i], piece_length)]
    IN [res |-> IF k = 0 THEN Ok ELSE read_file(f, entries[k], piece_length).res,
        length |-> SumLengths(files), files |-> files,
        pieces |-> ConcatPieces(f, done, piece_length),
        listed |-> Listing(listed),
        opened |-> SelectSeq(tried, LAMBDA e : read_file(f, e, piece_length).opened),
        buffered |-> Largest({read_file(f, tried[i], piece_length).buffered :
                                  i \in 1..Len(tried)})]

\* a slip: the sort left out
read_dir_Unsorted(f, dir, piece_length, ord) ==
    DirResult(f, list_dir(f, dir, ord), list_dir(f, dir, ord), piece_length)

\* read_dir: list, sort, then the loop
read_dir(f, dir, piece_length, ord) ==
    DirResult(f, list_dir(f, dir, ord), sort(list_dir(f, dir, ord)), piece_length)

----------------------------------------------------------------------------
(* build() *)

\* what a call of build() leaves: its result, the Torrent when it is Ok,
\* the listing list_dir returned, the files opened, in order, and the
\* largest number of bytes of a file held in memory at once
Outcome(r, torrent, listed, opened, buffered) ==
    [res |-> r.res, kind |-> r.kind, msg |-> r.msg,
     torrent |-> torrent, listed |-> listed, opened |-> opened, buffered |-> buffered]

\* the name of the Torrent: the one set, or the last component of `path`
NameOf(b) ==
    IF IsSome(b.name) THEN [res |-> Ok, val |-> Unwrap(b.name)]
    ELSE last_component(b.path)

\* a slip: `private` is only inserted when the caller gave no value for it
ExtraInfoOf_CallerValueKept(b) ==
    IF b.is_private
    THEN Some(GetOrInsertEmpty(b.extra_info_fields) @@ (StrPrivate :> BInteger(1)))
    ELSE b.extra_info_fields

\* `private = 1` is inserted when the torrent is private
ExtraInfoOf(b) ==
    IF b.is_private
    THEN Some(Insert(GetOrInsertEmpty(b.extra_info_fields), StrPrivate, BInteger(1)))
    ELSE b.extra_info_fields

MkTorrent(b, name, length, files, pieces) ==
    [announce |-> b.announce, announce_list |-> b.announce_list,
     length |-> length, files |-> files, name |-> name,
     piece_length |-> b.piece_length, pieces |-> pieces,
     extra_fields |-> b.extra_fields, extra_info_fields |-> ExtraInfoOf(b)]

\* the second half of build(): the file type of the root decides
ReadRoot(b, f, ord) ==
    LET file_type == symlink_metadata(f, b.path)
        canonicalized_path == canonicalize(f, b.path)
        name == NameOf(b).val
    IN
    IF ~IsSome(file_type) THEN Outcome(IOError("symlink_metadata"), None, NoListing, <<>>, 0)
    ELSE IF ~IsSome(canonicalized_path)
         THEN Outcome(IOError("canonicalize"), None, NoListing, <<>>, 0)
    ELSE IF Unwrap(file_type) = "dir"
         THEN LET d == read_dir(f, Unwrap(canonicalized_path), b.piece_length, ord) IN
              IF d.res # Ok THEN Outcome(d.res, None, d.listed, d.opened, d.buffered)
              ELSE Outcome(Ok, Some(MkTorrent(b, name, d.length, Some(d.files), d.pieces)),
                           d.listed, d.opened, d.buffered)
    ELSE IF Unwrap(file_type) = "file"
         THEN LET r == read_file(f, Unwrap(canonicalized_path), b.piece_length) IN
              IF r.res # Ok
              THEN Outcome(r.res, None, NoListing,
                           IF r.opened THEN <<Unwrap(canonicalized_path)>> ELSE <<>>,
                           r.buffered)
              ELSE Outcome(Ok, Some(MkTorrent(b, name, r.length, None, r.pieces)),
                           NoListing, <<Unwrap(canonicalized_path)>>, r.buffered)
    ELSE Outcome(Failure("root path points to a symbolic link"), None, NoListing, <<>>, 0)

\* the orders in which a directory can yield the names S
RECURSIVE Perms(_)
Perms(S) ==
    IF S = {} THEN {<<>>}
    ELSE UNION {{<<x>> \o p : p \in Perms(S \ {x})} : x \in S}

\* one order for each directory of `dirs`, any order
RECURSIVE OrdersOver(_, _)
OrdersOver(f, dirs) ==
    IF dirs = {} THEN {<<>>}
    ELSE LET d == CHOOSE x \in dirs : TRUE IN
         {(d :> p) @@ o : p \in Perms(Children(f, d)), o \in OrdersOver(f, dirs \ {d})}

\* a slip: the maps validated only after the content has been read
build_MapsValidatedLast(b, f, ord) ==
    IF Validate(b, f) = Ok THEN ReadRoot(b, f, ord)
    ELSE IF Validate(b, f).msg \in {"extra_fields: contains a 0-length key",
                                    "extra_info_fields: contains a 0-length key"}
              /\ NameOf(b).res = Ok
         THEN LET root == canonicalize(f, b.path)
                  o == CHOOSE x \in OrdersOver(f, DirsUnder(f, Unwrap(root))) : TRUE
                  r == ReadRoot(b, f, o)
              IN Outcome(Validate(b, f), None, r.listed, r.opened, r.buffered)
    ELSE Outcome(Validate(b, f), None, NoListing, <<>>, 0)

build(b, f, ord) ==
    IF Validate(b, f) # Ok THEN Outcome(Validate(b, f), None, NoListing, <<>>, 0)
    ELSE IF NameOf(b).res # Ok THEN Outcome(NameOf(b).res, None, NoListing, <<>>, 0)
    ELSE ReadRoot(b, f, ord)

----------------------------------------------------------------------------
(* Inputs *)

\* /d, /d/a, /d/b, /d/a-, /l, /lf, /l/b, /d/s, /nx, d, /d/a/.., /d/a/.h, /
Paths ==
    {AbsPath(<<NmD>>), AbsPath(<<NmD, NmA>>), AbsPath(<<NmD, NmB>>),
     AbsPath(<<NmD, NmADash>>), AbsPath(<<NmL>>), AbsPath(<<NmLF>>),
     AbsPath(<<NmL, NmB>>), AbsPath(<<NmD, NmS>>), AbsPath(<<NmNX>>), <<Normal(NmD)>>,
     Append(AbsPath(<<NmD, NmA>>), ParentDir), AbsPath(<<NmD, NmA, NmHidden>>),
     AbsPath(<<>>)}

PieceLengths == {-1, 0, 1, 2, 3, 4, 1023, 1024, 1073741824}

\* the orders in which the directories at or below the root of `b` can
\* yield their entries, when build() gets as far as reading the root
Orders(b, f) ==
    LET root == canonicalize(f, b.path) IN
    IF IsSome(root) /\ Validate(b, f) = Ok /\ NameOf(b).res = Ok
    THEN OrdersOver(f, DirsUnder(f, Unwrap(root)))
    ELSE {<<>>}

----------------------------------------------------------------------------
(* Actions *)

\* a setter is called on a builder that has not been built yet
SetPath(S) ==
    /\ runs = <<>>
    /\ \E p \in S : builder' = set_path(builder, p)
    /\ UNCHANGED <<fs, runs, body, parsed>>

SetPieceLength(S) ==
    /\ runs = <<>>
    /\ \E n \in S : builder' = set_piece_length(builder, n)
    /\ UNCHANGED <<fs, runs, body, parsed>>

\* build() on a clone of the builder; the file system yields the entries
\* of a directory in any order
Build ==
    /\ Len(runs) < MaxRuns
    /\ \E ord \in Orders(builder, fs) : runs' = Append(runs, build(builder, fs, ord))
    /\ UNCHANGED <<builder, fs, body, parsed>>

----------------------------------------------------------------------------
(* Building from a tree: the builder of new(), its path and piece length   *)
(* varied, over every tree of FsSet                                        *)

Init ==
    /\ fs \in FsSet
    /\ \E p \in Paths, n \in PieceLengths : builder = New(StrU, p, n)
    /\ runs = <<>>
    /\ body = <<>> /\ parsed = <<>>

Next ==
    \/ SetPath(Paths)
    \/ SetPieceLength(PieceLengths)
    \/ Build

Spec == Init /\ [][Next]_vars

----------------------------------------------------------------------------
(* Configuring a builder: new(), then setters in any order, then build(),  *)
(* over one tree; every field takes valid and invalid values               *)

\* /d holds the directory a (with its hidden file), the file b and the
\* link s
FsConfig == MkFs({<<NmD, NmB>>}, (<<NmD, NmB>> :> 1))

Announces == {<<>>, StrU}
AnnounceLists == {<<>>, <<<<>>>>, <<<<<<>>>>>>, <<<<StrU>>>>, <<<<StrU>>, <<>>>>}
TorrentNames == {<<>>, StrN}
\* /d and the relative path d
ConfigPaths == {AbsPath(<<NmD>>), <<Normal(NmD)>>}
ConfigPieceLengths == {2, 3}
ExtraKeys == {<<>>, StrK}
ExtraInfoKeys == {<<>>, StrPrivate, StrK}
ExtraValues == {BInteger(0), BInteger(1)}

SetAnnounce(S) ==
    /\ runs = <<>>
    /\ \E a \in S : builder' = set_announce(builder, a)
    /\ UNCHANGED <<fs, runs, body, parsed>>

SetAnnounceList(S) ==
    /\ runs = <<>>
    /\ \E al \in S : builder' = set_announce_list(builder, al)
    /\ UNCHANGED <<fs, runs, body, parsed>>

SetName(S) ==
    /\ runs = <<>>
    /\ \E n \in S : builder' = set_name(builder, n)
    /\ UNCHANGED <<fs, runs, body, parsed>>

AddExtraField(K, V) ==
    /\ runs = <<>>
    /\ \E k \in K, v \in V : builder' = add_extra_field(builder, k, v)
    /\ UNCHANGED <<fs, runs, body, parsed>>

AddExtraInfoField(K, V) ==
    /\ runs = <<>>
    /\ \E k \in K, v \in V : builder' = add_extra_info_field(builder, k, v)
    /\ UNCHANGED <<fs, runs, body, parsed>>

SetPrivacy ==
    /\ runs = <<>>
    /\ \E p \in BOOLEAN : builder' = set_privacy(builder, p)
    /\ UNCHANGED <<fs, runs, body, parsed>>

ConfigInit ==
    /\ fs = FsConfig
    /\ \E a \in Announces, p \in ConfigPaths, n \in ConfigPieceLengths :
           builder = New(a, p, n)
    /\ runs = <<>>
    /\ body = <<>> /\ parsed = <<>>

ConfigNext ==
    \/ SetAnnounce(Announces)
    \/ SetAnnounceList(AnnounceLists)
    \/ SetName(TorrentNames)
    \/ SetPath(ConfigPaths)
    \/ SetPieceLength(ConfigPieceLengths)
    \/ AddExtraField(ExtraKeys, ExtraValues)
    \/ AddExtraInfoField(ExtraInfoKeys, ExtraValues)
    \/ SetPrivacy
    \/ Build

SpecConfig == ConfigInit /\ [][ConfigNext]_vars

----------------------------------------------------------------------------
(* A builder written as a struct literal, as the tests of the crate do:    *)
(* a map may then be present and empty                                     *)

LiteralMaps(K) == {None, Some(<<>>)} \cup {Some(k :> BInteger(1)) : k \in K}

LiteralInit ==
    /\ fs = FsConfig
    /\ builder \in
           [announce : Announces,
            announce_list : {None} \cup {Some(al) : al \in AnnounceLists},
            name : {None} \cup {Some(n) : n \in TorrentNames},
            path : ConfigPaths,
            piece_length : ConfigPieceLengths,
            extra_fields : LiteralMaps(ExtraKeys),
            extra_info_fields : LiteralMaps(ExtraInfoKeys),
            is_private : BOOLEAN]
    /\ runs = <<>>
    /\ body = <<>> /\ parsed = <<>>

LiteralNext == Build

SpecLiteral == LiteralInit /\ [][LiteralNext]_vars

----------------------------------------------------------------------------
(* Listing a tree with hidden directories, hidden files and links to       *)
(* directories                                                             *)

\* the hidden directory ".g"
NmG == <<46, 103>>

\* what every such tree holds: /d, /d/a and the hidden directory /d/.g
ListFsBase ==
    (<<>> :> Dir) @@ (<<NmD>> :> Dir) @@ (<<NmD, NmA>> :> Dir) @@ (<<NmD, NmG>> :> Dir)

\* what it may hold: the files /d/b, /d/a/b, /d/.g/b and /d/.h, the link
\* /d/s to the directory /d/a and the link /d/a/s to /d/b
ListOptional ==
    (<<NmD, NmB>> :> RegFile(<<31>>))
    @@ (<<NmD, NmA, NmB>> :> RegFile(<<11>>))
    @@ (<<NmD, NmG, NmB>> :> RegFile(<<51>>))
    @@ (<<NmD, NmHidden>> :> RegFile(<<41>>))
    @@ (<<NmD, NmS>> :> Symlink(<<NmD, NmA>>))
    @@ (<<NmD, NmA, NmS>> :> Symlink(<<NmD, NmB>>))

ListFsSet == {[p \in P |-> ListOptional[p]] @@ ListFsBase : P \in SUBSET DOMAIN ListOptional}

\* /d and /d/a
ListPaths == {AbsPath(<<NmD>>), AbsPath(<<NmD, NmA>>)}

ListInit ==
    /\ fs \in ListFsSet
    /\ \E p \in ListPaths : builder = New(StrU, p, 2)
    /\ runs = <<>>
    /\ body = <<>> /\ parsed = <<>>

ListNext == Build

SpecListing == ListInit /\ [][ListNext]_vars

----------------------------------------------------------------------------
(* Building from files that fail: a file may be unreadable, may have grown *)
(* or shrunk since its metadata was read, or may report a length of 2^32   *)
(* or more                                                                 *)

\* the nodes the file `p` may be
IoNodes(p) ==
    {RegFile(Content(p, n)) : n \in 1..MaxFileLen}
    \cup {FileNode(Content(p, 1), U64(0, 1), FALSE),
          FileNode(Content(p, 2), U64(0, 1), TRUE),
          FileNode(Content(p, 1), U64(0, 2), TRUE),
          FileNode(Content(p, 1), U64(1, 1), TRUE)}

\* the trees with the files /d/a/b, /d/a- and /d/b
IoFsSet ==
    {n @@ FsBase : n \in {m \in [CandidateFiles -> UNION {IoNodes(p) : p \in CandidateFiles}] :
                              \A p \in CandidateFiles : m[p] \in IoNodes(p)}}

\* the directory /d and the file /d/b
IoPaths == {AbsPath(<<NmD>>), AbsPath(<<NmD, NmB>>)}

IoInit ==
    /\ fs \in IoFsSet
    /\ \E p \in IoPaths, n \in {1, 2} : builder = New(StrU, p, n)
    /\ runs = <<>>
    /\ body = <<>> /\ parsed = <<>>

IoNext == Build

SpecIO == IoInit /\ [][IoNext]_vars

----------------------------------------------------------------------------
(* Properties of build() over a tree *)

RunIds == 1..Len(runs)
OkRuns == {i \in RunIds : runs[i].res = "Ok"}
TorrentOf(i) == Unwrap(runs[i].torrent)
MultiFileRuns == {i \in OkRuns : IsSome(TorrentOf(i).files)}
FilesOf(i) == Unwrap(TorrentOf(i).files)

\* the contents of `entries`, one after the other
RECURSIVE ConcatContents(_, _)
ConcatContents(f, entries) ==
    IF entries = <<>> THEN <<>>
    ELSE f[Head(entries)].content \o ConcatContents(f, Tail(entries))

\* the bytes the digests of `pieces` were computed from, one after the other
RECURSIVE HashedBytes(_)
HashedBytes(pieces) ==
    IF pieces = <<>> THEN <<>> ELSE Head(pieces).sha1 \o HashedBytes(Tail(pieces))

CeilDiv(a, b) == (a + b - 1) \div b

\* C1: in multi-file mode the digest list is the one of the single stream
\* of all files' contents, in sorted order, cut into piece_length chunks
ClaimC1_StreamPieces ==
    \A i \in MultiFileRuns :
        TorrentOf(i).pieces =
            HashChunks(Chunks(ConcatContents(fs, runs[i].opened), TorrentOf(i).piece_length))

\* C2: every Torrent built has ceil(length / piece_length) pieces
ClaimC2_PieceCount ==
    \A i \in OkRuns :
        Len(TorrentOf(i).pieces) = CeilDiv(TorrentOf(i).length, TorrentOf(i).piece_length)

\* the sum of the lengths of `files`, entry by entry
RECURSIVE TotalOf(_, _)
TotalOf(files, n) == IF n = 0 THEN 0 ELSE files[n].length + TotalOf(files, n - 1)

\* the node the path of the builder leads to, links followed
RootNode == fs[Unwrap(canonicalize(fs, builder.path))]

\* C3: files is present exactly when the root is a directory (absent when
\* it is a regular file), and then length is the sum of the files' lengths
C3_FilesIffDirectory ==
    \A i \in OkRuns :
        /\ IsSome(TorrentOf(i).files) <=> RootNode.kind = "dir"
        /\ ~IsSome(TorrentOf(i).files) <=> RootNode.kind = "file"
        /\ IsSome(TorrentOf(i).files) =>
               TorrentOf(i).length = TotalOf(FilesOf(i), Len(FilesOf(i)))

\* a directory with two files that are not empty has been built
C3_Witness ==
    \E i \in MultiFileRuns :
        /\ Len(FilesOf(i)) >= 2
        /\ \A j \in 1..Len(FilesOf(i)) : FilesOf(i)[j].length > 0

\* p comes before q component by component: at the first place where they
\* differ, p has ended or holds the smaller name
ComponentwiseLess(p, q) ==
    \E k \in 1..Len(q) :
        /\ \A j \in 1..(k - 1) : j <= Len(p) /\ p[j] = q[j]
        /\ k > Len(p) \/ (k <= Len(p) /\ BytesLess(p[k], q[k]))

StrictlyIncreasing(entries, Less(_, _)) ==
    \A j, k \in 1..Len(entries) : j < k => Less(entries[j], entries[k])

BytewiseLess(p, q) == BytesLess(PathString(p), PathString(q))

\* C4, as stated: the files are read in byte-wise lexicographic order of
\* their canonical path strings
ClaimC4_BytewiseOrder ==
    \A i \in MultiFileRuns : StrictlyIncreasing(runs[i].opened, BytewiseLess)

\* C4, amended: the files listed are put in component-wise order (each
\* name compared byte-wise), and in that one order they are hashed and
\* appear in the output files list
C4_ComponentwiseOrder ==
    \A i \in MultiFileRuns :
        /\ {runs[i].opened[j] : j \in 1..Len(runs[i].opened)} = runs[i].listed.entries
        /\ Len(runs[i].opened) = runs[i].listed.n
        /\ StrictlyIncreasing(runs[i].opened, ComponentwiseLess)
        /\ HashedBytes(TorrentOf(i).pieces) = ConcatContents(fs, runs[i].opened)
        /\ Len(FilesOf(i)) = Len(runs[i].opened)
        /\ \A j \in 1..Len(FilesOf(i)) :
               /\ FilesOf(i)[j].path = runs[i].opened[j][Len(runs[i].opened[j])]
               /\ FilesOf(i)[j].length = Len(fs[runs[i].opened[j]].content)

\* /d holds a/b and a-, which the two orders put differently, and the
\* file system yielded the entries in another order than the sorted one
C4_Witness ==
    \E i \in MultiFileRuns :
        /\ Len(runs[i].opened) = 3
        /\ ~runs[i].listed.in_order
        /\ \A j \in 1..3 : FilesOf(i)[j].length > 0

\* C5: two runs of build() on the same configuration and tree return the
\* same result, whatever order the file system yields the entries in
C5_Deterministic ==
    \A i, j \in RunIds :
        /\ runs[i].res = runs[j].res
        /\ runs[i].kind = runs[j].kind
        /\ runs[i].torrent = runs[j].torrent

\* two runs over a directory of two or more files, the file system having
\* yielded the entries in sorted order in one and not in the other
C5_Witness ==
    \E i, j \in MultiFileRuns :
        /\ Len(FilesOf(i)) >= 2
        /\ runs[i].listed.in_order
        /\ ~runs[j].listed.in_order

\* n is 1, 2, 4, 8, ...
RECURSIVE IsPowerOfTwo(_)
IsPowerOfTwo(n) == n = 1 \/ (n > 1 /\ n % 2 = 0 /\ IsPowerOfTwo(n \div 2))

\* the path is not absolute, or holds `..`, or holds a name that starts
\* with `.`, or leads nowhere
PathDefect(path, f) ==
    \/ path = <<>> \/ path[1] # RootDir
    \/ \E j \in 1..Len(path) : path[j] = ParentDir
    \/ \E j \in 1..Len(path) : path[j].kind = "Normal" /\ Head(path[j].name) = Dot
    \/ ~exists(f, path)

\* the last component of the path is a symbolic link
RootIsSymlink(path, f) ==
    /\ ~PathDefect(path, f)
    /\ NormalNames(path) \in DOMAIN f
    /\ f[NormalNames(path)].kind = "symlink"

\* every input of the builder but piece_length is valid: the fields, the
\* path, and the root is a file or a directory with a name
OtherInputsValid ==
    /\ builder.announce # <<>>
    /\ builder.announce_list = None /\ builder.name = None
    /\ builder.extra_fields = None /\ builder.extra_info_fields = None
    /\ ~PathDefect(builder.path, fs)
    /\ ~RootIsSymlink(builder.path, fs)
    /\ builder.path[Len(builder.path)].kind = "Normal"

IsBuilderFailure(r) == r.res = "Err" /\ r.kind = "TorrentBuilderFailure" /\ r.torrent = None

\* C6: with all other inputs valid, build() fails with TorrentBuilderFailure
\* exactly when piece_length <= 0 or is no power of two, and succeeds for
\* every positive power of two, 1 included
C6_PieceLengthValidation ==
    \A i \in RunIds :
        OtherInputsValid =>
            /\ IsBuilderFailure(runs[i]) <=>
                   (builder.piece_length <= 0 \/ ~IsPowerOfTwo(builder.piece_length))
            /\ IsPowerOfTwo(builder.piece_length) => runs[i].res = "Ok"

\* build() has succeeded with piece_length = 1
C6_Witness ==
    /\ OtherInputsValid
    /\ builder.piece_length = 1
    /\ runs # <<>> /\ runs[1].res = "Ok"

PathMessages ==
    {"path: contains ..", "path: contains hidden components", "path: not absolute",
     "path: does not point to anything"}

\* C7: build() fails with TorrentBuilderFailure whenever the path is not
\* absolute, holds `..`, holds a hidden component or does not exist; a
\* path with none of these defects passes the path validation
C7_PathValidation ==
    \A i \in RunIds :
        /\ PathDefect(builder.path, fs) => IsBuilderFailure(runs[i])
        /\ ~PathDefect(builder.path, fs) => runs[i].msg \notin PathMessages

\* build() has refused the path of a hidden file that exists
C7_Witness ==
    /\ builder.path = AbsPath(<<NmD, NmA, NmHidden>>)
    /\ runs # <<>> /\ IsBuilderFailure(runs[1])

----------------------------------------------------------------------------
(* Properties of the validation of the builder's fields *)

HasEmptyKey(o) == IsSome(o) /\ \E k \in DOMAIN Unwrap(o) : Len(k) = 0

\* the announce list is set and is empty, or holds an empty tier or url
AnnounceListEmptiness(o) ==
    /\ IsSome(o)
    /\ \/ Len(Unwrap(o)) = 0
       \/ \E t \in 1..Len(Unwrap(o)) :
              \/ Len(Unwrap(o)[t]) = 0
              \/ \E u \in 1..Len(Unwrap(o)[t]) : Len(Unwrap(o)[t][u]) = 0

\* something that must not be empty is
SomethingEmpty(b) ==
    \/ Len(b.announce) = 0
    \/ IsSome(b.name) /\ Len(Unwrap(b.name)) = 0
    \/ AnnounceListEmptiness(b.announce_list)
    \/ HasEmptyKey(b.extra_fields)
    \/ HasEmptyKey(b.extra_info_fields)

AnnounceListMessages ==
    {"announce_list: empty", "announce_list: a tier is empty",
     "announce_list: a tier contains a 0-length url"}

\* C8: build() fails with TorrentBuilderFailure whenever announce, a name
\* that was set, a set announce_list, one of its tiers or urls, or a key of
\* extra_fields or extra_info_fields is empty; when announce_list or name
\* was never set, its check passes
C8_EmptinessValidation ==
    \A i \in RunIds :
        /\ SomethingEmpty(builder) => IsBuilderFailure(runs[i])
        /\ builder.announce_list = None => runs[i].msg \notin AnnounceListMessages
        /\ builder.name = None => runs[i].msg # "name: length is 0"

\* build() has refused an empty key of extra_info_fields, the last of the
\* validations, name and announce_list never set
C8_Witness ==
    /\ builder.announce_list = None /\ builder.name = None
    /\ HasEmptyKey(builder.extra_info_fields)
    /\ runs # <<>>
    /\ runs[1].msg = "extra_info_fields: contains a 0-length key"

IsEmptyMap(o) == IsSome(o) /\ DOMAIN Unwrap(o) = {}

\* C9, as stated: build() on a builder with a map that is present and
\* empty panics
ClaimC9_EmptyMapPanics ==
    \A i \in RunIds :
        (IsEmptyMap(builder.extra_fields) \/ IsEmptyMap(builder.extra_info_fields))
            => runs[i].res = "Panic"

\* announce, announce_list, name, path and piece_length are valid
EarlierInputsValid(b, f) ==
    /\ Len(b.announce) > 0
    /\ ~AnnounceListEmptiness(b.announce_list)
    /\ ~(IsSome(b.name) /\ Len(Unwrap(b.name)) = 0)
    /\ ~PathDefect(b.path, f)
    /\ IsPowerOfTwo(b.piece_length)

\* C9, amended: build() panics on a map that is present and empty when
\* every validation that runs before the map's own has passed (announce,
\* announce_list, name, path, piece_length, and for extra_info_fields also
\* extra_fields); when an earlier one fails, build() returns its
\* TorrentBuilderFailure; and build() panics in no other case
C9_EmptyMapPanics ==
    \A i \in RunIds :
        /\ (IsEmptyMap(builder.extra_fields) /\ EarlierInputsValid(builder, fs))
               => runs[i].res = "Panic"
        /\ (IsEmptyMap(builder.extra_info_fields) /\ EarlierInputsValid(builder, fs)
                /\ ~HasEmptyKey(builder.extra_fields))
               => runs[i].res = "Panic"
        /\ ((IsEmptyMap(builder.extra_fields) \/ IsEmptyMap(builder.extra_info_fields))
                /\ ~EarlierInputsValid(builder, fs))
               => IsBuilderFailure(runs[i])
        /\ runs[i].res = "Panic"
               => (IsEmptyMap(builder.extra_fields) \/ IsEmptyMap(builder.extra_info_fields))

\* build() has panicked on an empty extra_info_fields, extra_fields
\* holding an entry
C9_Witness ==
    /\ IsEmptyMap(builder.extra_info_fields)
    /\ IsSome(builder.extra_fields) /\ ~IsEmptyMap(builder.extra_fields)
    /\ runs # <<>> /\ runs[1].res = "Panic"

----------------------------------------------------------------------------
(* Properties of the recursive listing *)

\* the regular files below `root` none of whose names below `root` starts
\* with '.', every node between `root` and the file being a directory
ReachableFiles(f, root) ==
    {p \in DOMAIN f :
        /\ f[p].kind = "file"
        /\ IsPrefix(root, p)
        /\ \A k \in (Len(root) + 1)..Len(p) : Head(p[k]) # Dot
        /\ \A k \in (Len(root) + 1)..(Len(p) - 1) : f[SubSeq(p, 1, k)].kind = "dir"}

\* C11: the listing of a root directory holds exactly the regular files
\* reached through directories that are neither hidden nor links and whose
\* own name is not hidden, each once; no link, no hidden entry and nothing
\* below a hidden directory is listed
C11_ListingExact ==
    \A i \in MultiFileRuns :
        LET root == Unwrap(canonicalize(fs, builder.path)) IN
        /\ runs[i].listed.entries = ReachableFiles(fs, root)
        /\ runs[i].listed.n = Cardinality(ReachableFiles(fs, root))
        /\ \A p \in runs[i].listed.entries :
               /\ fs[p].kind = "file"
               /\ \A k \in (Len(root) + 1)..Len(p) : ~StartsWithDot(p[k])

\* /d has been listed, holding the files b and a/b, the hidden file .h, a
\* file below the hidden directory .g and the link s to the directory a
C11_Witness ==
    /\ builder.path = AbsPath(<<NmD>>)
    /\ {<<NmD, NmG, NmB>>, <<NmD, NmHidden>>, <<NmD, NmS>>} \subseteq DOMAIN fs
    /\ \E i \in MultiFileRuns :
           runs[i].listed.entries = {<<NmD, NmB>>, <<NmD, NmA, NmB>>}

----------------------------------------------------------------------------
(* Properties of the setters and of the private flag *)

\* the entries of a map that may be absent
KeysOf(o) == IF IsSome(o) THEN DOMAIN Unwrap(o) ELSE {}

\* C12: a Torrent built with is_private set has `private` = Integer(1) in
\* extra_info_fields, whatever value the caller gave for that key and also
\* when the caller added no extra info field, the caller's other entries
\* kept; with is_private unset, extra_info_fields is the caller's
C12_PrivateFlag ==
    \A i \in OkRuns :
        LET given == builder.extra_info_fields
            built == TorrentOf(i).extra_info_fields
        IN
        /\ builder.is_private =>
               /\ IsSome(built)
               /\ DOMAIN Unwrap(built) = KeysOf(given) \cup {StrPrivate}
               /\ Unwrap(built)[StrPrivate] = BInteger(1)
               /\ \A k \in KeysOf(given) \ {StrPrivate} : Unwrap(built)[k] = Unwrap(given)[k]
        /\ ~builder.is_private => built = given

\* a private Torrent has been built, the caller having added `private` = 0
\* and another extra info field
C12_Witness ==
    /\ builder.is_private
    /\ KeysOf(builder.extra_info_fields) = {StrPrivate, StrK}
    /\ Unwrap(builder.extra_info_fields)[StrPrivate] = BInteger(0)
    /\ OkRuns # {}

\* builders b and c hold the same in every field but those of `changed`
SameBut(b, c, changed) == \A fld \in (DOMAIN b) \ changed : c[fld] = b[fld]

\* the map `after` is the map `before` with `key` added or replaced
AddedTo(before, after, key, val) ==
    /\ IsSome(after)
    /\ DOMAIN Unwrap(after) = KeysOf(before) \cup {key}
    /\ Unwrap(after)[key] = val
    /\ \A k \in KeysOf(before) \ {key} : Unwrap(after)[k] = Unwrap(before)[k]

\* C13: on the builder any sequence of setter calls has led to, every
\* setter gives its field the value passed (an extra map keeps its other
\* keys and holds the value passed for the key) and changes no other field;
\* so each field holds the value of its latest setter call, or the initial
\* value
C13_SetterFrame ==
    /\ DOMAIN builder = {"announce", "announce_list", "name", "path", "piece_length",
                         "extra_fields", "extra_info_fields", "is_private"}
    /\ \A a \in Announces :
           /\ set_announce(builder, a).announce = a
           /\ SameBut(builder, set_announce(builder, a), {"announce"})
    /\ \A al \in AnnounceLists :
           /\ set_announce_list(builder, al).announce_list = Some(al)
           /\ SameBut(builder, set_announce_list(builder, al), {"announce_list"})
    /\ \A n \in TorrentNames :
           /\ set_name(builder, n).name = Some(n)
           /\ SameBut(builder, set_name(builder, n), {"name"})
    /\ \A p \in ConfigPaths :
           /\ set_path(builder, p).path = p
           /\ SameBut(builder, set_path(builder, p), {"path"})
    /\ \A n \in ConfigPieceLengths :
           /\ set_piece_length(builder, n).piece_length = n
           /\ SameBut(builder, set_piece_length(builder, n), {"piece_length"})
    /\ \A p \in BOOLEAN :
           /\ set_privacy(builder, p).is_private = p
           /\ SameBut(builder, set_privacy(builder, p), {"is_private"})
    /\ \A k \in ExtraKeys, v \in ExtraValues :
           /\ AddedTo(builder.extra_fields, add_extra_field(builder, k, v).extra_fields, k, v)
           /\ SameBut(builder, add_extra_field(builder, k, v), {"extra_fields"})
    /\ \A k \in ExtraInfoKeys, v \in ExtraValues :
           /\ AddedTo(builder.extra_info_fields,
                      add_extra_info_field(builder, k, v).extra_info_fields, k, v)
           /\ SameBut(builder, add_extra_info_field(builder, k, v), {"extra_info_fields"})

\* setters of every field have been called: the name and the announce list
\* are set, both maps hold two keys, the torrent is private
C13_Witness ==
    /\ builder.name = Some(StrN)
    /\ builder.announce_list = Some(<<<<StrU>>>>)
    /\ Cardinality(KeysOf(builder.extra_fields)) = 2
    /\ Cardinality(KeysOf(builder.extra_info_fields)) = 2
    /\ builder.is_private
    /\ builder.piece_length = 3

----------------------------------------------------------------------------
(* Bencode values, as the tracker module receives them from the parser *)

BString(s) == BencodeElem("String", 0, s, <<>>, <<>>)
BBytes(b) == BencodeElem("Bytes", 0, b, <<>>, <<>>)
BList(xs) == BencodeElem("List", 0, <<>>, xs, <<>>)
BDictionary(m) == BencodeElem("Dictionary", 0, <<>>, <<>>, m)
BRawDictionary(m) == BencodeElem("RawDictionary", 0, <<>>, <<>>, m)

\* HashMap::remove: the value of the key, and the map without the key
Get(m, key) == IF key \in DOMAIN m THEN Some(m[key]) ELSE None
Remove(m, key) == [k \in (DOMAIN m) \ {key} |-> m[k]]

\* HashMap::is_empty
MapIsEmpty(m) == DOMAIN m = {}

\* the Option made of what is left of a dictionary: None when nothing is
\* a slip: the test of is_empty() left out
ExtraFields_AlwaysSome(m) == Some(m)

ExtraFields(m) == IF MapIsEmpty(m) THEN None ELSE Some(m)

\* "failure reason"
KeyFailureReason == <<102, 97, 105, 108, 117, 114, 101, 32, 114, 101, 97, 115, 111, 110>>
\* "interval"
KeyInterval == <<105, 110, 116, 101, 114, 118, 97, 108>>
\* "peers"
KeyPeers == <<112, 101, 101, 114, 115>>
\* "warning"
KeyWarning == <<119, 97, 114, 110, 105, 110, 103>>
\* "min interval"
KeyMinInterval == <<109, 105, 110, 32, 105, 110, 116, 101, 114, 118, 97, 108>>
\* "tracker id"
KeyTrackerId == <<116, 114, 97, 99, 107, 101, 114, 32, 105, 100>>
\* "complete"
KeyComplete == <<99, 111, 109, 112, 108, 101, 116, 101>>
\* "incomplete"
KeyIncomplete == <<105, 110, 99, 111, 109, 112, 108, 101, 116, 101>>
\* "downloaded"
KeyDownloaded == <<100, 111, 119, 110, 108, 111, 97, 100, 101, 100>>
\* "files"
KeyFiles == <<102, 105, 108, 101, 115>>
\* "peer id"
KeyPeerId == <<112, 101, 101, 114, 32, 105, 100>>
\* "ip"
KeyIp == <<105, 112>>
\* "port"
KeyPort == <<112, 111, 114, 116>>

----------------------------------------------------------------------------
(* The bencode parser's choice of variants: a byte string that is valid    *)
(* UTF-8 becomes a String, any other Bytes; a dictionary all of whose keys *)
(* are valid UTF-8 becomes a Dictionary, any other a RawDictionary         *)

\* a byte string, an integer, a list, a dictionary as they stand on the wire
Wire(t, n, s, xs, m) == [t |-> t, n |-> n, s |-> s, xs |-> xs, m |-> m]
WStr(bytes) == Wire("str", 0, bytes, <<>>, <<>>)
WInt(n) == Wire("int", n, <<>>, <<>>, <<>>)
WList(xs) == Wire("list", 0, <<>>, xs, <<>>)
WDict(m) == Wire("dict", 0, <<>>, <<>>, m)

Cont(b) == b >= 128 /\ b <= 191

\* the length of the well-formed UTF-8 sequence `s` starts with, 0 if none
Utf8Lead(s) ==
    LET n == Len(s)
        b1 == s[1]
        b2 == IF n >= 2 THEN s[2] ELSE 0
        b3 == IF n >= 3 THEN s[3] ELSE 0
        b4 == IF n >= 4 THEN s[4] ELSE 0
    IN
    IF b1 <= 127 THEN 1
    ELSE IF b1 >= 194 /\ b1 <= 223 /\ Cont(b2) THEN 2
    ELSE IF b1 = 224 /\ b2 >= 160 /\ b2 <= 191 /\ Cont(b3) THEN 3
    ELSE IF b1 = 237 /\ b2 >= 128 /\ b2 <= 159 /\ Cont(b3) THEN 3
    ELSE IF b1 >= 225 /\ b1 <= 239 /\ b1 # 237 /\ Cont(b2) /\ Cont(b3) THEN 3
    ELSE IF b1 = 240 /\ b2 >= 144 /\ b2 <= 191 /\ Cont(b3) /\ Cont(b4) THEN 4
    ELSE IF b1 >= 241 /\ b1 <= 243 /\ Cont(b2) /\ Cont(b3) /\ Cont(b4) THEN 4
    ELSE IF b1 = 244 /\ b2 >= 128 /\ b2 <= 143 /\ Cont(b3) /\ Cont(b4) THEN 4
    ELSE 0

RECURSIVE IsUtf8(_)
IsUtf8(s) ==
    IF s = <<>> THEN TRUE
    ELSE IF Utf8Lead(s) = 0 THEN FALSE
    ELSE IsUtf8(SubSeq(s, Utf8Lead(s) + 1, Len(s)))

\* the BencodeElem the parser makes of a value on the wire
RECURSIVE Decode(_)
Decode(w) ==
    IF w.t = "str" THEN (IF IsUtf8(w.s) THEN BString(w.s) ELSE BBytes(w.s))
    ELSE IF w.t = "int" THEN BInteger(w.n)
    ELSE IF w.t = "list" THEN BList([i \in 1..Len(w.xs) |-> Decode(w.xs[i])])
    ELSE IF \A k \in DOMAIN w.m : IsUtf8(k)
         THEN BDictionary([k \in DOMAIN w.m |-> Decode(w.m[k])])
         ELSE BRawDictionary([k \in DOMAIN w.m |-> Decode(w.m[k])])

\* BencodeElem::from_bytes: the top-level values of the body, in order
BencodeElem_from_bytes(b) == [i \in 1..Len(b) |-> Decode(b[i])]

----------------------------------------------------------------------------
(* Results of the tracker module, addresses and peers *)

\* Ok(val), an Err of kind MalformedResponse, MalformedTorrent or
\* TrackerErrorResponse (which carries the reason), or a panic
TOk(val) == [res |-> "Ok", kind |-> "None", msg |-> "ok", reason |-> <<>>, val |-> val]
Malformed(msg) ==
    [res |-> "Err", kind |-> "MalformedResponse", msg |-> msg, reason |-> <<>>, val |-> <<>>]
MalformedTorrent(msg) ==
    [res |-> "Err", kind |-> "MalformedTorrent", msg |-> msg, reason |-> <<>>, val |-> <<>>]
TrackerErrorResponse(reason) ==
    [res |-> "Err", kind |-> "TrackerErrorResponse", msg |-> "failure reason",
     reason |-> reason, val |-> <<>>]
TPanic(msg) == [res |-> "Panic", kind |-> "None", msg |-> msg, reason |-> <<>>, val |-> <<>>]

\* an IpAddr: its family and its 16-bit groups, the first one first
Ipv4Addr(a, b, c, d) == [family |-> "V4", groups |-> <<a * 256 + b, c * 256 + d>>]
Ipv6Loopback == [family |-> "V6", groups |-> <<0, 0, 0, 0, 0, 0, 0, 1>>]

\* the parts of `s` between the dots
RECURSIVE SplitDots(_, _)
SplitDots(s, cur) ==
    IF s = <<>> THEN <<cur>>
    ELSE IF Head(s) = Dot THEN <<cur>> \o SplitDots(Tail(s), <<>>)
    ELSE SplitDots(Tail(s), Append(cur, Head(s)))

IsDigit(b) == b >= 48 /\ b <= 57

\* the number a string of decimal digits stands for
RECURSIVE DecimalValue(_)
DecimalValue(ds) ==
    IF ds = <<>> THEN 0 ELSE DecimalValue(SubSeq(ds, 1, Len(ds) - 1)) * 10 + (ds[Len(ds)] - 48)

\* one part of a dotted address: one to three digits, no leading zero, at
\* most 255
IsOctet(part) ==
    /\ Len(part) >= 1 /\ Len(part) <= 3
    /\ \A i \in 1..Len(part) : IsDigit(part[i])
    /\ Len(part) > 1 => part[1] # 48
    /\ DecimalValue(part) <= 255

\* str::parse::<IpAddr>: a dotted IPv4 address, or an IPv6 address, of which
\* the text "::1" is the one modelled
parse_IpAddr(s) ==
    LET parts == SplitDots(s, <<>>) IN
    IF Len(parts) = 4 /\ \A i \in 1..4 : IsOctet(parts[i])
    THEN Some(Ipv4Addr(DecimalValue(parts[1]), DecimalValue(parts[2]),
                       DecimalValue(parts[3]), DecimalValue(parts[4])))
    ELSE IF s = <<58, 58, 49>> THEN Some(Ipv6Loopback)
    ELSE None

\* one byte formatted with {:x}: lower-case hexadecimal, no padding
HexDigit(d) == IF d < 10 THEN 48 + d ELSE 87 + d
FormatHex(b) == IF b < 16 THEN <<HexDigit(b)>> ELSE <<HexDigit(b \div 16), HexDigit(b % 16)>>

\* bytes.iter().map(|b| format!("{:x}", b)).format("")
RECURSIVE FormatHexAll(_)
FormatHexAll(bytes) ==
    IF bytes = <<>> THEN <<>> ELSE FormatHex(Head(bytes)) \o FormatHexAll(Tail(bytes))

\* a slip: a port out of the range of u16 taken to the nearest bound
as_u16_Saturating(n) == IF n < 0 THEN 0 ELSE IF n > 65535 THEN 65535 ELSE n

\* `port as u16`: the low 16 bits
as_u16(n) == n % 65536

Peer(id, ip, port, extra_fields) ==
    [id |-> id, addr |-> [ip |-> ip, port |-> port], extra_fields |-> extra_fields]

\* Peer::from_dict
Peer_from_dict(dict) ==
    LET id == Get(dict, KeyPeerId)
        d1 == Remove(dict, KeyPeerId)
        ip == Get(d1, KeyIp)
        d2 == Remove(d1, KeyIp)
        port == Get(d2, KeyPort)
        d3 == Remove(d2, KeyPort)
    IN
    IF IsSome(id) /\ Unwrap(id).tag \notin {"String", "Bytes"}
    THEN Malformed("peer id maps to neither a utf8 string nor a string of bytes")
    ELSE IF ~IsSome(ip) THEN Malformed("ip does not exist")
    ELSE IF Unwrap(ip).tag # "String" THEN Malformed("ip does not map to a string")
    ELSE IF ~IsSome(port) THEN Malformed("port does not exist")
    ELSE IF Unwrap(port).tag # "Integer" THEN Malformed("port does not map to an integer")
    ELSE IF ~IsSome(parse_IpAddr(Unwrap(ip).bytes)) THEN Malformed("ip is invalid")
    ELSE TOk(Peer(IF ~IsSome(id) THEN None
                  ELSE IF Unwrap(id).tag = "String" THEN Some(Unwrap(id).bytes)
                  ELSE Some(FormatHexAll(Unwrap(id).bytes)),
                  Unwrap(parse_IpAddr(Unwrap(ip).bytes)),
                  as_u16(Unwrap(port).int),
                  ExtraFields(d3)))

\* a slip: the port read with from_le_bytes
Peer_from_bytes_LittleEndian(bytes) ==
    IF Len(bytes) # 6 THEN TPanic("Peer::from_bytes() expects 6 bytes")
    ELSE TOk(Peer(None, Ipv4Addr(bytes[1], bytes[2], bytes[3], bytes[4]),
                  bytes[6] * 256 + bytes[5], None))

\* Peer::from_bytes: four bytes of address and two of port, big-endian
Peer_from_bytes(bytes) ==
    IF Len(bytes) # 6 THEN TPanic("Peer::from_bytes() expects 6 bytes")
    ELSE TOk(Peer(None, Ipv4Addr(bytes[1], bytes[2], bytes[3], bytes[4]),
                  bytes[5] * 256 + bytes[6], None))

----------------------------------------------------------------------------
(* TrackerResponse *)

\* extract_peers_from_list: a Peer of every element, up to the first error
RECURSIVE extract_peers_from_list(_)
extract_peers_from_list(list) ==
    IF list = <<>> THEN TOk(<<>>)
    ELSE LET first == IF Head(list).tag = "Dictionary" THEN Peer_from_dict(Head(list).dict)
                      ELSE Malformed("peers contains a non-dictionary element")
         IN
         IF first.res # "Ok" THEN first
         ELSE LET rest == extract_peers_from_list(Tail(list)) IN
              IF rest.res # "Ok" THEN rest ELSE TOk(<<first.val>> \o rest.val)

\* a slip: the slice of a record one byte short
RECURSIVE peers_of_records_ShortSlice(_, _, _)
peers_of_records_ShortSlice(bytes, i, n) ==
    IF i > n THEN TOk(<<>>)
    ELSE LET first == Peer_from_bytes(SubSeq(bytes, (i - 1) * 6 + 1, i * 6 - 1)) IN
         IF first.res # "Ok" THEN first
         ELSE LET rest == peers_of_records_ShortSlice(bytes, i + 1, n) IN
              IF rest.res # "Ok" THEN rest ELSE TOk(<<first.val>> \o rest.val)

\* the loop of extract_peers_from_bytes over the records i..n
RECURSIVE peers_of_records(_, _, _)
peers_of_records(bytes, i, n) ==
    IF i > n THEN TOk(<<>>)
    ELSE LET first == Peer_from_bytes(SubSeq(bytes, (i - 1) * 6 + 1, i * 6)) IN
         IF first.res # "Ok" THEN first
         ELSE LET rest == peers_of_records(bytes, i + 1, n) IN
              IF rest.res # "Ok" THEN rest ELSE TOk(<<first.val>> \o rest.val)

\* a slip: the test of the length left out, the bytes after the last whole
\* record dropped
extract_peers_from_bytes_NoLengthTest(bytes) == peers_of_records(bytes, 1, Len(bytes) \div 6)

\* extract_peers_from_bytes
extract_peers_from_bytes(bytes) ==
    IF Len(bytes) % 6 # 0 THEN Malformed("Compact peers contains incorrect number of bytes")
    ELSE peers_of_records(bytes, 1, Len(bytes) \div 6)

\* the `peers` of a response
PeersOf(peers) ==
    IF ~IsSome(peers) THEN Malformed("peers does not exist")
    ELSE IF Unwrap(peers).tag = "List" THEN extract_peers_from_list(Unwrap(peers).list)
    ELSE IF Unwrap(peers).tag \in {"Bytes", "String"}
         THEN extract_peers_from_bytes(Unwrap(peers).bytes)
    ELSE Malformed("peers does not map to a dict or a string of bytes")

\* a field that may be absent: None, Some(its value) when it is of the
\* variant `tag`, an error otherwise
OptionalField(field, tag, msg) ==
    IF ~IsSome(field) THEN TOk(None)
    ELSE IF Unwrap(field).tag = tag
         THEN TOk(Some(IF tag = "Integer" THEN Unwrap(field).int ELSE Unwrap(field).bytes))
    ELSE Malformed(msg)

\* TrackerResponse::from_bytes from `interval` on, on the dictionary
\* `failure reason` was removed from
TrackerResponse_fields(parsed0) ==
    LET interval == Get(parsed0, KeyInterval)
        parsed1 == Remove(parsed0, KeyInterval)
        peers == PeersOf(Get(parsed1, KeyPeers))
        parsed2 == Remove(parsed1, KeyPeers)
        warning == OptionalField(Get(parsed2, KeyWarning), "String",
                                 "warning does not map to a string")
        parsed3 == Remove(parsed2, KeyWarning)
        min_interval == OptionalField(Get(parsed3, KeyMinInterval), "Integer",
                                      "min interval does not map to an integer")
        parsed4 == Remove(parsed3, KeyMinInterval)
        tracker_id == OptionalField(Get(parsed4, KeyTrackerId), "String",
                                    "tracker id does not map to a string")
        parsed5 == Remove(parsed4, KeyTrackerId)
        complete == OptionalField(Get(parsed5, KeyComplete), "Integer",
                                  "complete does not map to an integer")
        parsed6 == Remove(parsed5, KeyComplete)
        incomplete == OptionalField(Get(parsed6, KeyIncomplete), "Integer",
                                    "incomplete does not map to an integer")
        parsed7 == Remove(parsed6, KeyIncomplete)
    IN
    IF ~IsSome(interval) THEN Malformed("interval does not exist")
    ELSE IF Unwrap(interval).tag # "Integer" THEN Malformed("interval does not map to an integer")
    ELSE IF peers.res # "Ok" THEN peers
    ELSE IF warning.res # "Ok" THEN warning
    ELSE IF min_interval.res # "Ok" THEN min_interval
    ELSE IF tracker_id.res # "Ok" THEN tracker_id
    ELSE IF complete.res # "Ok" THEN complete
    ELSE IF incomplete.res # "Ok" THEN incomplete
    ELSE TOk([interval |-> Unwrap(interval).int, peers |-> peers.val,
              warning |-> warning.val, min_interval |-> min_interval.val,
              tracker_id |-> tracker_id.val, complete |-> complete.val,
              incomplete |-> incomplete.val, extra_fields |-> ExtraFields(parsed7)])

\* a slip: `failure reason` looked at after the other fields
TrackerResponse_from_dict_ReasonLast(dict) ==
    LET reason == Get(dict, KeyFailureReason)
        fields == TrackerResponse_fields(Remove(dict, KeyFailureReason))
    IN
    IF fields.res # "Ok" THEN fields
    ELSE IF ~IsSome(reason) THEN fields
    ELSE IF Unwrap(reason).tag = "String" THEN TrackerErrorResponse(Unwrap(reason).bytes)
    ELSE Malformed("failure reason does not map to a string")

\* TrackerResponse::from_bytes on the top-level dictionary: `failure
\* reason` first, then the fields
TrackerResponse_from_dict(dict) ==
    LET reason == Get(dict, KeyFailureReason) IN
    IF ~IsSome(reason) THEN TrackerResponse_fields(Remove(dict, KeyFailureReason))
    ELSE IF Unwrap(reason).tag = "String" THEN TrackerErrorResponse(Unwrap(reason).bytes)
    ELSE Malformed("failure reason does not map to a string")

\* TrackerResponse::from_bytes
TrackerResponse_from_bytes(b) ==
    LET elems == BencodeElem_from_bytes(b) IN
    IF Len(elems) # 1 THEN MalformedTorrent("should contain 1 and only 1 top-level element")
    ELSE IF elems[1].tag # "Dictionary"
         THEN Malformed("Tracker response doesn't contain a dictionary")
    ELSE TrackerResponse_from_dict(elems[1].dict)

----------------------------------------------------------------------------
(* The replies of a tracker the model parses *)

\* every dictionary that gives some of the keys of V a value out of V[key]
RECURSIVE DictsOver(_, _)
DictsOver(V, keys) ==
    IF keys = {} THEN {<<>>}
    ELSE LET k == CHOOSE x \in keys : TRUE
             rest == DictsOver(V, keys \ {k})
         IN rest \cup {(k :> v) @@ m : v \in V[k], m \in rest}

\* every byte string of length n over the bytes of A
RECURSIVE BytesOfLen(_, _)
BytesOfLen(A, n) ==
    IF n = 0 THEN {<<>>} ELSE {<<a>> \o s : a \in A, s \in BytesOfLen(A, n - 1)}

\* "x", a key no structure knows, and a key that is not UTF-8
KeyX == <<120>>
KeyRaw == <<255>>

\* "1.2.3.4", "10.0.0.255", "::1", "256.1.1.1", "1.2.3"
IpStrings ==
    {<<49, 46, 50, 46, 51, 46, 52>>, <<49, 48, 46, 48, 46, 48, 46, 50, 53, 53>>,
     <<58, 58, 49>>, <<50, 53, 54, 46, 49, 46, 49, 46, 49>>, <<49, 46, 50, 46, 51>>}

Ports == {-65537, -65536, -1, 0, 6881, 65535, 65536, 70000, 2147483647}

\* peer ids: every byte string of up to MaxPeerIdLen bytes over 00, 01, 10,
\* 11 and ff (hexadecimal)
PeerIds == UNION {BytesOfLen({0, 1, 16, 17, 255}, n) : n \in 0..MaxPeerIdLen}

\* a peer as it should be: "1.2.3.4", port 6881
GoodPeer == (KeyIp :> WStr(<<49, 46, 50, 46, 51, 46, 52>>)) @@ (KeyPort :> WInt(6881))

\* peers in dictionary form: every peer id with a good address; and every
\* mix of a present, absent or ill-typed id, ip, port and unknown key
PeerDicts ==
    {(KeyPeerId :> WStr(id)) @@ GoodPeer : id \in PeerIds}
    \cup DictsOver((KeyPeerId :> {WStr(<<97>>), WStr(<<1, 255>>), WInt(1)})
                   @@ (KeyIp :> ({WStr(ip) : ip \in IpStrings} \cup {WInt(1), WStr(<<255>>)}))
                   @@ (KeyPort :> ({WInt(n) : n \in Ports} \cup {WStr(<<56, 48>>)}))
                   @@ (KeyX :> {WInt(7)})
                   @@ (KeyRaw :> {WInt(8)}),
                   {KeyPeerId, KeyIp, KeyPort, KeyX, KeyRaw})

\* peers as a list: one peer, two peers, a list with an integer in it
PeerLists ==
    {<<>>, <<WInt(1)>>, <<WDict(GoodPeer), WInt(1)>>}
    \cup {<<WDict(p)>> : p \in PeerDicts}
    \cup {<<WDict(GoodPeer), WDict(p)>> : p \in DictsOver(
              (KeyIp :> {WStr(<<58, 58, 49>>), WStr(<<49, 46, 50, 46, 51>>)})
              @@ (KeyPort :> {WInt(65536 + 80)}) @@ (KeyX :> {WInt(7)}),
              {KeyIp, KeyPort, KeyX})}

\* compact records: six bytes out of 01, a9 and c3 (c3 a9 is UTF-8 for one
\* character, a9 alone or c3 before 01 is not UTF-8)
Records == BytesOfLen({1, 169, 195}, 6)
\* 127.0.0.1:6881 and 65.66.67.68:17734, the second one ASCII
MoreRecords == {<<127, 0, 0, 1, 26, 225>>, <<65, 66, 67, 68, 69, 70>>}

\* compact peers of k records
RECURSIVE Compact(_)
Compact(k) ==
    IF k = 0 THEN {<<>>}
    ELSE IF k = 1 THEN Records
    ELSE {c \o r : c \in Compact(k - 1), r \in MoreRecords}

\* compact peers: whole records, and lengths that 6 does not divide
CompactPeers ==
    UNION {Compact(k) : k \in 0..MaxCompactPeers}
    \cup {<<1>>, <<1, 2, 3, 4, 5>>, <<255, 2, 3, 4, 5>>, <<1, 2, 3, 4, 5, 6, 7>>}

\* replies that differ in their peers only
PeersBodies ==
    {<<WDict((KeyInterval :> WInt(1800)) @@ (KeyPeers :> WList(l)))>> : l \in PeerLists}
    \cup {<<WDict((KeyInterval :> WInt(1800)) @@ (KeyPeers :> WStr(c)))>> : c \in CompactPeers}

\* no value: the key is left out of the dictionary
Absent == Wire("absent", 0, <<>>, <<>>, <<>>)

\* the dictionary of the keys of `choice` that are given a value
Present(choice) == [k \in {x \in DOMAIN choice : choice[x] # Absent} |-> choice[k]]

\* the values a reply may give its top-level keys, well-typed and ill-typed
FailureReasons == {Absent, WStr(<<98, 97, 110>>), WStr(<<255>>), WInt(0)}
Intervals == {Absent, WInt(1800), WStr(<<49>>)}
PeersValues ==
    {Absent, WStr(<<65, 66, 67, 68, 69, 70>>), WStr(<<1, 2, 3, 4, 5>>),
     WList(<<WDict(GoodPeer)>>), WList(<<WInt(1)>>), WInt(6)}
Warnings == {Absent, WStr(<<119>>), WStr(<<255>>)}
MinIntervals == {Absent, WInt(60), WStr(<<54, 48>>)}
TrackerIds == {Absent, WStr(<<116>>), WList(<<>>)}
Completes == {Absent, WInt(3), WStr(<<51>>)}
Incompletes == {Absent, WInt(-4), WDict(<<>>)}
Unknowns == {Absent, WInt(7)}

\* a reply with the given top-level fields
AnnounceBody(reason, interval, peers, warning, min_interval, tracker_id, complete, incomplete, unknown) ==
    <<WDict(Present((KeyFailureReason :> reason) @@ (KeyInterval :> interval)
                    @@ (KeyPeers :> peers) @@ (KeyWarning :> warning)
                    @@ (KeyMinInterval :> min_interval) @@ (KeyTrackerId :> tracker_id)
                    @@ (KeyComplete :> complete) @@ (KeyIncomplete :> incomplete)
                    @@ (KeyX :> unknown)))>>

\* replies with a key that is not UTF-8 at the top level
RawBodies ==
    {<<WDict((KeyRaw :> WInt(8)) @@ m)>> : m \in DictsOver(
        (KeyFailureReason :> {WStr(<<98, 97, 110>>)})
        @@ (KeyInterval :> {WInt(1800)})
        @@ (KeyPeers :> {WStr(<<>>), WDict(GoodPeer)})
        @@ (KeyFiles :> {WDict(<<>>)}),
        {KeyFailureReason, KeyInterval, KeyPeers, KeyFiles})}

\* bodies that are not one dictionary: no element at all, one that is no
\* dictionary, two dictionaries
OtherBodies == {<<>>, <<WInt(1)>>, <<WStr(<<120>>)>>, <<WDict(<<>>), WDict(<<>>)>>}

----------------------------------------------------------------------------
(* SwarmMetadata and TrackerScrapeResponse *)

\* a field that must be there and be an Integer
RequiredInteger(field, missing, wrong) ==
    IF ~IsSome(field) THEN Malformed(missing)
    ELSE IF Unwrap(field).tag = "Integer" THEN TOk(Unwrap(field).int)
    ELSE Malformed(wrong)

\* SwarmMetadata::from_dict
SwarmMetadata_from_dict(dict) ==
    LET complete == RequiredInteger(Get(dict, KeyComplete), "complete does not exist",
                                    "complete does not map to an integer")
        d1 == Remove(dict, KeyComplete)
        incomplete == RequiredInteger(Get(d1, KeyIncomplete), "incomplete does not exist",
                                      "incomplete does not map to an integer")
        d2 == Remove(d1, KeyIncomplete)
        downloaded == RequiredInteger(Get(d2, KeyDownloaded), "downloaded does not exist",
                                      "downloaded does not map to an integer")
        d3 == Remove(d2, KeyDownloaded)
    IN
    IF complete.res # "Ok" THEN complete
    ELSE IF incomplete.res # "Ok" THEN incomplete
    ELSE IF downloaded.res # "Ok" THEN downloaded
    ELSE TOk([complete |-> complete.val, incomplete |-> incomplete.val,
              downloaded |-> downloaded.val, extra_fields |-> ExtraFields(d3)])

\* the SwarmMetadata of one entry of `files`
MetadataOf(v) ==
    IF v.tag = "Dictionary" THEN SwarmMetadata_from_dict(v.dict)
    ELSE Malformed("swarm metadata is not a dictionary")

\* the map over the entries of `files`, taken in the order `ord`, collected
\* up to the first error
RECURSIVE collect_files(_, _)
collect_files(files, ord) ==
    IF ord = <<>> THEN TOk(<<>>)
    ELSE LET first == MetadataOf(files[Head(ord)]) IN
         IF first.res # "Ok" THEN first
         ELSE LET rest == collect_files(files, Tail(ord)) IN
              IF rest.res # "Ok" THEN rest
              ELSE TOk((Head(ord) :> first.val) @@ rest.val)

\* TrackerScrapeResponse::from_bytes; `ord` is the order in which the hash
\* map of `files` yields its keys
TrackerScrapeResponse_from_bytes(b, ord) ==
    LET elems == BencodeElem_from_bytes(b) IN
    IF Len(elems) # 1 THEN MalformedTorrent("should contain 1 and only 1 top-level element")
    ELSE IF elems[1].tag # "Dictionary"
         THEN Malformed("Tracker scrape response doesn't contain a dictionary")
    ELSE LET files == Get(elems[1].dict, KeyFiles)
             parsed1 == Remove(elems[1].dict, KeyFiles)
         IN
         IF ~IsSome(files) THEN Malformed("files does not exist")
         ELSE IF Unwrap(files).tag # "RawDictionary"
              THEN Malformed("files does not map to a raw dict")
         ELSE LET collected == collect_files(Unwrap(files).dict, ord) IN
              IF collected.res # "Ok" THEN collected
              ELSE TOk([files |-> collected.val, extra_fields |-> ExtraFields(parsed1)])

\* the orders in which the hash map of `files` can yield its keys
FileOrders(b) ==
    IF Len(b) = 1 /\ b[1].t = "dict" /\ KeyFiles \in DOMAIN b[1].m /\ b[1].m[KeyFiles].t = "dict"
    THEN Perms(DOMAIN b[1].m[KeyFiles].m)
    ELSE {<<>>}

\* two info hashes, one of them UTF-8 ("AB"), one not (ff 01)
HashUtf8 == <<65, 66>>
HashRaw == <<255, 1>>

\* the metadata of a swarm: every mix of present, absent and ill-typed
\* fields; and something that is not a dictionary
Metadata ==
    {WDict(m) : m \in DictsOver(
        (KeyComplete :> {WInt(5), WStr(<<53>>)})
        @@ (KeyIncomplete :> {WInt(0), WList(<<>>)})
        @@ (KeyDownloaded :> {WInt(-1), WStr(<<255>>)})
        @@ (KeyX :> {WInt(7)}),
        {KeyComplete, KeyIncomplete, KeyDownloaded, KeyX})}
    \cup {WInt(1),
          WDict((KeyComplete :> WInt(5)) @@ (KeyIncomplete :> WInt(0))
                @@ (KeyDownloaded :> WInt(9)) @@ (KeyRaw :> WInt(8)))}

\* replies to a scrape: `files` absent, ill-typed, or a dictionary of up to
\* two swarms
ScrapeBodies ==
    {<<WDict(m)>> : m \in DictsOver(
        (KeyFiles :> ({WDict(f) : f \in DictsOver((HashUtf8 :> Metadata) @@ (HashRaw :> Metadata),
                                                  {HashUtf8, HashRaw})}
                      \cup {WInt(1), WList(<<>>)}))
        @@ (KeyX :> {WInt(7)}),
        {KeyFiles, KeyX})}

\* an info hash of 20 bytes (not UTF-8), and the metadata of a swarm with
\* its three integers
Hash20 == [i \in 1..20 |-> 255]
GoodMetadata ==
    WDict((KeyComplete :> WInt(5)) @@ (KeyIncomplete :> WInt(0)) @@ (KeyDownloaded :> WInt(9)))

\* replies to a scrape whose `files` has a key of 20 bytes, a key of 2
\* bytes, or both
HashBodies ==
    {<<WDict(KeyFiles :> WDict(f))>> :
        f \in DictsOver((Hash20 :> {GoodMetadata}) @@ (HashRaw :> {GoodMetadata}),
                        {Hash20, HashRaw}) \ {<<>>}}

----------------------------------------------------------------------------
(* Parsing the replies of a tracker: a body is received, then parsed as    *)
(* the reply to an announce or to a scrape                                 *)

TrackerFromBytes ==
    /\ parsed = None
    /\ parsed' = Some([fn |-> "TrackerResponse", out |-> TrackerResponse_from_bytes(body)])
    /\ UNCHANGED <<builder, fs, runs, body>>

ScrapeFromBytes ==
    /\ parsed = None
    /\ \E ord \in FileOrders(body) :
           parsed' = Some([fn |-> "TrackerScrapeResponse",
                           out |-> TrackerScrapeResponse_from_bytes(body, ord)])
    /\ UNCHANGED <<builder, fs, runs, body>>

TrackerInit ==
    /\ builder = New(StrU, AbsPath(<<NmD>>), 2) /\ fs = FsConfig /\ runs = <<>>
    /\ \/ \E reason \in FailureReasons, interval \in Intervals, peers \in PeersValues,
              warning \in Warnings, min_interval \in MinIntervals,
              tracker_id \in TrackerIds, complete \in Completes,
              incomplete \in Incompletes, unknown \in Unknowns :
              body = AnnounceBody(reason, interval, peers, warning, min_interval,
                                  tracker_id, complete, incomplete, unknown)
       \/ body \in PeersBodies
       \/ body \in RawBodies
       \/ body \in ScrapeBodies
       \/ body \in HashBodies
       \/ body \in OtherBodies
    /\ parsed = None

TrackerNext == TrackerFromBytes \/ ScrapeFromBytes

SpecTracker == TrackerInit /\ [][TrackerNext]_vars

----------------------------------------------------------------------------
(* Properties of TrackerResponse::from_bytes *)

\* the body has been parsed by `fn`; what came out; the top-level value
ParsedBy(fn) == parsed # None /\ Unwrap(parsed).fn = fn
Out == Unwrap(parsed).out
Top == Decode(body[1])

\* the body is one top-level Dictionary
IsOneDictionary == Len(body) = 1 /\ Top.tag = "Dictionary"

Has(d, key, tag) == key \in DOMAIN d /\ d[key].tag = tag

Octets(ip) ==
    <<ip.groups[1] \div 256, ip.groups[1] % 256, ip.groups[2] \div 256, ip.groups[2] % 256>>
PortBytes(port) == <<port \div 256, port % 256>>

\* the reply is a Dictionary of `interval` and `peers` only, interval an
\* Integer
OnlyIntervalAndPeers ==
    /\ IsOneDictionary
    /\ DOMAIN Top.dict = {KeyInterval, KeyPeers}
    /\ Top.dict[KeyInterval].tag = "Integer"

\* the reply holds compact peers, as Bytes or as a String, of whole records
HasCompactPeers ==
    /\ IsOneDictionary
    /\ KeyFailureReason \notin DOMAIN Top.dict
    /\ KeyPeers \in DOMAIN Top.dict
    /\ Top.dict[KeyPeers].tag \in {"Bytes", "String"}
    /\ Len(Top.dict[KeyPeers].bytes) % 6 = 0

\* C15: compact peers of 6k bytes, Bytes or String, give k peers in the
\* order of the records; peer i has the IPv4 address of the first four
\* bytes of record i and the port of its last two, both big-endian, no id
\* and no extra fields
C15_CompactPeers ==
    (ParsedBy("TrackerResponse") /\ HasCompactPeers) =>
        LET bytes == Top.dict[KeyPeers].bytes IN
        /\ OnlyIntervalAndPeers => Out.res = "Ok"
        /\ Out.res = "Ok" =>
               /\ Len(Out.val.peers) * 6 = Len(bytes)
               /\ \A i \in 1..Len(Out.val.peers) :
                      LET peer == Out.val.peers[i] IN
                      /\ peer.addr.ip.family = "V4"
                      /\ Octets(peer.addr.ip) = SubSeq(bytes, 6 * i - 5, 6 * i - 2)
                      /\ PortBytes(peer.addr.port) = SubSeq(bytes, 6 * i - 1, 6 * i)
                      /\ peer.id = None
                      /\ peer.extra_fields = None

\* compact peers of two records, held in a String, have been parsed: the
\* second peer is 65.66.67.68:17734
C15_Witness ==
    /\ ParsedBy("TrackerResponse") /\ HasCompactPeers
    /\ Top.dict[KeyPeers].tag = "String"
    /\ Out.res = "Ok"
    /\ Len(Out.val.peers) = 2
    /\ Out.val.peers[1].addr.port # Out.val.peers[2].addr.port
    /\ Out.val.peers[2].addr = [ip |-> Ipv4Addr(65, 66, 67, 68), port |-> 17734]

\* a peer in dictionary form as it should be: an `ip` that is a String and
\* parses, a `port` that is an Integer, a `peer id`, if any, that is a
\* String or Bytes
ValidPeer(e) ==
    /\ e.tag = "Dictionary"
    /\ Has(e.dict, KeyIp, "String") /\ IsSome(parse_IpAddr(e.dict[KeyIp].bytes))
    /\ Has(e.dict, KeyPort, "Integer")
    /\ KeyPeerId \in DOMAIN e.dict => e.dict[KeyPeerId].tag \in {"String", "Bytes"}

\* the reply holds its peers as a list
HasPeerList ==
    /\ IsOneDictionary
    /\ KeyFailureReason \notin DOMAIN Top.dict
    /\ Has(Top.dict, KeyPeers, "List")

PeerList == Top.dict[KeyPeers].list

\* C16: the port of a peer in dictionary form is the low 16 bits of the
\* Integer p given, that is p modulo 2^16, and no value of p makes the
\* parsing fail
C16_PortTruncated ==
    (ParsedBy("TrackerResponse") /\ HasPeerList) =>
        /\ (OnlyIntervalAndPeers /\ \A i \in 1..Len(PeerList) : ValidPeer(PeerList[i]))
               => Out.res = "Ok"
        /\ Out.res = "Ok" =>
               \A i \in 1..Len(PeerList) :
                   LET p == PeerList[i].dict[KeyPort].int
                       port == Out.val.peers[i].addr.port
                   IN /\ port \in 0..65535
                      /\ (p - port) % 65536 = 0

\* a peer given the port -1 has been parsed: its port is 65535
C16_Witness ==
    /\ ParsedBy("TrackerResponse") /\ HasPeerList
    /\ Out.res = "Ok"
    /\ \E i \in 1..Len(PeerList) :
           PeerList[i].dict[KeyPort].int = -1 /\ Out.val.peers[i].addr.port = 65535

\* the two hexadecimal digits of a byte
TwoHexDigits(b) == <<HexDigit(b \div 16), HexDigit(b % 16)>>

\* C17: a `peer id` given as Bytes of n bytes becomes the id of 2n
\* hexadecimal digits, two for each byte in order, so that no two byte
\* strings give the same id
ClaimC17_HexPeerId ==
    (ParsedBy("TrackerResponse") /\ HasPeerList /\ Out.res = "Ok") =>
        \A i \in 1..Len(PeerList) :
            Has(PeerList[i].dict, KeyPeerId, "Bytes") =>
                LET bytes == PeerList[i].dict[KeyPeerId].bytes
                    id == Unwrap(Out.val.peers[i].id)
                IN /\ Len(id) = 2 * Len(bytes)
                   /\ \A j \in 1..Len(bytes) :
                          j * 2 <= Len(id) /\ SubSeq(id, 2 * j - 1, 2 * j) = TwoHexDigits(bytes[j])
                   /\ \A other \in PeerIds :
                          (~IsUtf8(other) /\ other # bytes) => FormatHexAll(other) # id

\* the field `key` of the reply is absent, or of the variant `tag`
Opt(d, key, tag) == key \in DOMAIN d => d[key].tag = tag

\* the peers of the reply are compact and of whole records, or a list of
\* valid peers
PeersWellFormed(d) ==
    /\ KeyPeers \in DOMAIN d
    /\ \/ d[KeyPeers].tag \in {"Bytes", "String"} /\ Len(d[KeyPeers].bytes) % 6 = 0
       \/ /\ d[KeyPeers].tag = "List"
          /\ \A i \in 1..Len(d[KeyPeers].list) : ValidPeer(d[KeyPeers].list[i])

WellFormed(d) ==
    /\ Has(d, KeyInterval, "Integer")
    /\ PeersWellFormed(d)
    /\ Opt(d, KeyWarning, "String") /\ Opt(d, KeyMinInterval, "Integer")
    /\ Opt(d, KeyTrackerId, "String") /\ Opt(d, KeyComplete, "Integer")
    /\ Opt(d, KeyIncomplete, "Integer")

\* the optional field `got` is None when `key` is absent, its value
\* otherwise
OptionalIs(d, key, got) ==
    IF key \in DOMAIN d
    THEN got = Some(IF d[key].tag = "Integer" THEN d[key].int ELSE d[key].bytes)
    ELSE got = None

----------------------------------------------------------------------------
(* Properties of extra_fields and of TrackerScrapeResponse::from_bytes *)

\* the keys each structure knows
TrackerResponseKeys ==
    {KeyFailureReason, KeyInterval, KeyPeers, KeyWarning, KeyMinInterval, KeyTrackerId,
     KeyComplete, KeyIncomplete}
PeerKeys == {KeyPeerId, KeyIp, KeyPort}
SwarmMetadataKeys == {KeyComplete, KeyIncomplete, KeyDownloaded}
TrackerScrapeResponseKeys == {KeyFiles}

\* `extra` holds the entries of `d` under keys other than `known`, as they
\* are in `d`, and is None when there is none
ExtrasAre(extra, d, known) ==
    IF (DOMAIN d) \ known = {} THEN extra = None
    ELSE /\ IsSome(extra)
         /\ DOMAIN Unwrap(extra) = (DOMAIN d) \ known
         /\ \A k \in DOMAIN Unwrap(extra) : Unwrap(extra)[k] = d[k]

\* C19: in every TrackerResponse, Peer, SwarmMetadata and
\* TrackerScrapeResponse parsed, extra_fields holds the entries of the
\* input dictionary whose keys the structure does not know, unchanged, no
\* key it knows, and is None instead of an empty map
C19_ExtraFields ==
    /\ (ParsedBy("TrackerResponse") /\ Out.res = "Ok") =>
           /\ ExtrasAre(Out.val.extra_fields, Top.dict, TrackerResponseKeys)
           /\ \A i \in 1..Len(Out.val.peers) :
                  IF Top.dict[KeyPeers].tag = "List"
                  THEN ExtrasAre(Out.val.peers[i].extra_fields, PeerList[i].dict, PeerKeys)
                  ELSE Out.val.peers[i].extra_fields = None
    /\ (ParsedBy("TrackerScrapeResponse") /\ Out.res = "Ok") =>
           /\ ExtrasAre(Out.val.extra_fields, Top.dict, TrackerScrapeResponseKeys)
           /\ \A h \in DOMAIN Out.val.files :
                  ExtrasAre(Out.val.files[h].extra_fields, Top.dict[KeyFiles].dict[h].dict,
                            SwarmMetadataKeys)

\* a reply to a scrape with an unknown key at the top level and two swarms,
\* one with an unknown key and one without, has been parsed
C19_Witness ==
    /\ ParsedBy("TrackerScrapeResponse") /\ Out.res = "Ok"
    /\ Out.val.extra_fields # None
    /\ \E h, g \in DOMAIN Out.val.files :
           Out.val.files[h].extra_fields # None /\ Out.val.files[g].extra_fields = None

\* the entry of `files` is a dictionary with Integer complete, incomplete
\* and downloaded
ValidMetadata(e) ==
    /\ e.tag \in {"Dictionary", "RawDictionary"}
    /\ \A k \in SwarmMetadataKeys : Has(e.dict, k, "Integer")

\* `files` is a dictionary of valid entries
ValidFiles(d) ==
    /\ KeyFiles \in DOMAIN d
    /\ d[KeyFiles].tag \in {"Dictionary", "RawDictionary"}
    /\ \A h \in DOMAIN d[KeyFiles].dict : ValidMetadata(d[KeyFiles].dict[h])

\* C20: TrackerScrapeResponse::from_bytes succeeds exactly when `files` of
\* the one top-level dictionary is a dictionary whose values are all
\* dictionaries with Integer complete, incomplete and downloaded; the
\* result has one entry for each key, with these three integers; a missing
\* or ill-typed field gives MalformedResponse
ClaimC20_ScrapeSucceedsIff ==
    (ParsedBy("TrackerScrapeResponse") /\ IsOneDictionary) =>
        /\ Out.res = "Ok" <=> ValidFiles(Top.dict)
        /\ Out.res # "Ok" => (Out.res = "Err" /\ Out.kind = "MalformedResponse")
        /\ Out.res = "Ok" =>
               /\ DOMAIN Out.val.files = DOMAIN Top.dict[KeyFiles].dict
               /\ \A h \in DOMAIN Out.val.files :
                      LET e == Top.dict[KeyFiles].dict[h].dict IN
                      /\ Out.val.files[h].complete = e[KeyComplete].int
                      /\ Out.val.files[h].incomplete = e[KeyIncomplete].int
                      /\ Out.val.files[h].downloaded = e[KeyDownloaded].int

----------------------------------------------------------------------------
(* Properties of the keys of `files` *)

\* the keys of `files` in the one top-level dictionary of the body
FilesKeys ==
    IF IsOneDictionary /\ KeyFiles \in DOMAIN Top.dict
          /\ Top.dict[KeyFiles].tag \in {"Dictionary", "RawDictionary"}
    THEN DOMAIN Top.dict[KeyFiles].dict
    ELSE {}

\* C21: every key of `files` in a TrackerScrapeResponse that was parsed
\* successfully has exactly 20 bytes, and a body whose `files` has a key of
\* another length is not accepted
ClaimC21_InfoHash20 ==
    ParsedBy("TrackerScrapeResponse") =>
        /\ Out.res = "Ok" => \A h \in DOMAIN Out.val.files : Len(h) = 20
        /\ (\E h \in FilesKeys : Len(h) # 20) => Out.res # "Ok"

----------------------------------------------------------------------------
(* Equality of bencode values: the derived PartialEq of BencodeElem, applied *)
(* to two values a caller builds                                            *)

\* a == b of #[derive(PartialEq)]: the same variant, and equal payloads
RECURSIVE BencodeElem_eq(_, _)
BencodeElem_eq(a, b) ==
    /\ a.tag = b.tag
    /\ CASE a.tag = "Integer" -> a.int = b.int
         [] a.tag \in {"String", "Bytes"} -> a.bytes = b.bytes
         [] a.tag = "List" ->
                /\ Len(a.list) = Len(b.list)
                /\ \A i \in 1..Len(a.list) : BencodeElem_eq(a.list[i], b.list[i])
         [] OTHER ->
                /\ DOMAIN a.dict = DOMAIN b.dict
                /\ \A k \in DOMAIN a.dict : BencodeElem_eq(a.dict[k], b.dict[k])

\* values without nesting, dictionaries of them in both variants, and
\* lists and dictionaries of these dictionaries
Leaves == {BInteger(0), BInteger(1), BString(<<120>>)}
FlatDicts ==
    {BDictionary(m) : m \in DictsOver((KeyX :> Leaves), {KeyX})}
    \cup {BRawDictionary(m) : m \in DictsOver((KeyX :> Leaves) @@ (KeyRaw :> Leaves),
                                              {KeyX, KeyRaw})}
Inner ==
    {BDictionary(KeyX :> BInteger(0)), BRawDictionary(KeyX :> BInteger(0)),
     BRawDictionary(KeyX :> BInteger(1))}
Elems ==
    Leaves \cup FlatDicts
    \cup {BList(<<d>>) : d \in Inner}
    \cup {BDictionary(KeyX :> d) : d \in Inner}
    \cup {BRawDictionary(KeyX :> d) : d \in Inner}

Compare ==
    /\ Len(body) = 2 /\ parsed = None
    /\ parsed' = Some([fn |-> "PartialEq", out |-> BencodeElem_eq(body[1], body[2])])
    /\ UNCHANGED <<builder, fs, runs, body>>

EqInit ==
    /\ builder = New(StrU, AbsPath(<<NmD>>), 2) /\ fs = FsConfig /\ runs = <<>>
    /\ \E a, b \in Elems : body = <<a, b>>
    /\ parsed = None

EqNext == Compare

SpecEq == EqInit /\ [][EqNext]_vars

\* the value with every RawDictionary whose keys are all UTF-8 made a
\* Dictionary, at every depth
RECURSIVE Normalized(_)
Normalized(e) ==
    CASE e.tag = "List" -> BList([i \in 1..Len(e.list) |-> Normalized(e.list[i])])
      [] e.tag \in {"Dictionary", "RawDictionary"} ->
             LET m == [k \in DOMAIN e.dict |-> Normalized(e.dict[k])] IN
             IF \A k \in DOMAIN m : IsUtf8(k) THEN BDictionary(m) ELSE BRawDictionary(m)
      [] OTHER -> e

\* C22: two bencode values compare equal exactly when they are the same
\* after normalization: a Dictionary equals the RawDictionary with the same
\* UTF-8 keys and equal values, at any depth
ClaimC22_EqualAfterNormalization ==
    ParsedBy("PartialEq") =>
        (Out <=> Normalized(body[1]) = Normalized(body[2]))

----------------------------------------------------------------------------
(* Properties of the order of validation and reading *)

\* every field of the builder passes its validation
AllInputsValid(b, f) ==
    /\ EarlierInputsValid(b, f)
    /\ ~HasEmptyKey(b.extra_fields) /\ ~HasEmptyKey(b.extra_info_fields)
    /\ ~IsEmptyMap(b.extra_fields) /\ ~IsEmptyMap(b.extra_info_fields)

\* the call listed a directory or opened a file
DidContentIO(r) == r.listed.n > 0 \/ r.opened # <<>>

\* C23: build() lists a directory or opens a file only when all seven
\* validations have passed; when one of them fails the result is
\* TorrentBuilderFailure, nothing having been listed or opened
C23_ValidationBeforeIO ==
    \A i \in RunIds :
        /\ DidContentIO(runs[i]) => AllInputsValid(builder, fs)
        /\ ~AllInputsValid(builder, fs) =>
               (IsBuilderFailure(runs[i]) /\ ~DidContentIO(runs[i]))

\* build() has refused a builder whose only defect is an empty key of
\* extra_info_fields, the last validation, its path being a directory with
\* a file in it
C23_Witness ==
    /\ EarlierInputsValid(builder, fs) /\ ~HasEmptyKey(builder.extra_fields)
    /\ HasEmptyKey(builder.extra_info_fields)
    /\ NormalNames(builder.path) \in DOMAIN fs /\ fs[NormalNames(builder.path)].kind = "dir"
    /\ runs # <<>> /\ IsBuilderFailure(runs[1]) /\ ~DidContentIO(runs[1])

----------------------------------------------------------------------------
(* Properties of build() over files that fail *)

\* the node cannot be read, or its content has not the length its metadata
\* reports, or that length is 2^32 or more
FailsToRead(n) == ~n.readable \/ n.size.hi # 0 \/ n.size.lo # Len(n.content)

\* the files build() has to read: the root when it is a file, the files
\* its listing reaches when it is a directory
FilesToRead ==
    LET root == Unwrap(canonicalize(fs, builder.path)) IN
    IF fs[root].kind = "file" THEN {root} ELSE ReachableFiles(fs, root)

\* C24: when a file build() has to read cannot be read, or yields a number
\* of bytes other than the length of its metadata, or has a length that does
\* not fit, build() returns IOError and no Torrent, whatever was hashed
\* before; and when every file reads well build() succeeds
C24_ReadFailureAborts ==
    \A i \in RunIds :
        /\ (\E p \in FilesToRead : FailsToRead(fs[p])) =>
               (runs[i].res = "Err" /\ runs[i].kind = "IOError" /\ runs[i].torrent = None)
        /\ (\A p \in FilesToRead : ~FailsToRead(fs[p])) => runs[i].res = "Ok"

\* build() of /d has returned IOError on its third file, which yields more
\* bytes than its metadata reports, after the first two were read and
\* hashed
C24_Witness ==
    /\ runs # <<>> /\ runs[1].kind = "IOError"
    /\ runs[1].msg = "# of bytes read from file != file size"
    /\ Len(runs[1].opened) = 3
    /\ ~FailsToRead(fs[runs[1].opened[1]]) /\ ~FailsToRead(fs[runs[1].opened[2]])

----------------------------------------------------------------------------
(* Properties of the memory read_file uses *)

\* C25: at every point of build(), at most piece_length bytes of file
\* content are held in memory
ClaimC25_BoundedBuffer ==
    \A i \in RunIds :
        runs[i].opened # <<>> => runs[i].buffered <= builder.piece_length

----------------------------------------------------------------------------
(* Properties of the number of top-level elements *)

\* C26: a reply to an announce or to a scrape that is not exactly one
\* top-level element, none or two, is refused with MalformedResponse
ClaimC26_OneElementOrMalformedResponse ==
    ((ParsedBy("TrackerResponse") \/ ParsedBy("TrackerScrapeResponse")) /\ Len(body) # 1) =>
        (Out.res = "Err" /\ Out.kind = "MalformedResponse")

----------------------------------------------------------------------------
(* Properties of the maps a builder made by new() and the setters holds *)

\* C27: after new() and any setters, extra_fields and extra_info_fields are
\* each absent or hold an entry, and build() does not panic
C27_NoEmptyMap ==
    /\ ~IsEmptyMap(builder.extra_fields)
    /\ ~IsEmptyMap(builder.extra_info_fields)
    /\ \A i \in RunIds : runs[i].res # "Panic"

\* build() has succeeded on a builder given an extra field and an extra
\* info field
C27_Witness ==
    /\ IsSome(builder.extra_fields) /\ IsSome(builder.extra_info_fields)
    /\ runs # <<>> /\ runs[1].res = "Ok"

----------------------------------------------------------------------------
(* Properties of the paths of the files of a Torrent *)

\* the components of the entry below the root
RelativeTo(root, entry) == SubSeq(entry, Len(root) + 1, Len(entry))

\* C28: in a Torrent built from a directory, distinct files have distinct
\* paths, and the path of a file holds its components relative to the
\* root, those of its subdirectories included
ClaimC28_DistinctPaths ==
    \A i \in MultiFileRuns :
        LET root == Unwrap(canonicalize(fs, builder.path)) IN
        /\ \A j, k \in 1..Len(FilesOf(i)) :
               j # k => FilesOf(i)[j].path # FilesOf(i)[k].path
        /\ \A j \in 1..Len(FilesOf(i)) :
               <<FilesOf(i)[j].path>> = RelativeTo(root, runs[i].opened[j])

----------------------------------------------------------------------------
(* Properties of the variant of `files` *)

\* `files` of the one top-level dictionary is a dictionary, of either
\* variant
FilesIsDictionary ==
    /\ IsOneDictionary /\ KeyFiles \in DOMAIN Top.dict
    /\ Top.dict[KeyFiles].tag \in {"Dictionary", "RawDictionary"}

\* C29: whether a reply to a scrape is accepted does not depend on the keys
\* of `files` being UTF-8 or not: a `files` whose keys are all UTF-8, or
\* which is empty, is accepted exactly when each of its entries is, as one
\* with a key that is not UTF-8 is
ClaimC29_AcceptedWhateverTheKeys ==
    (ParsedBy("TrackerScrapeResponse") /\ FilesIsDictionary) =>
        (Out.res = "Ok" <=>
            \A h \in DOMAIN Top.dict[KeyFiles].dict :
                MetadataOf(Top.dict[KeyFiles].dict[h]).res = "Ok")

----------------------------------------------------------------------------
(* Properties of the outcomes of the two parsers *)

\* C30: TrackerResponse::from_bytes and TrackerScrapeResponse::from_bytes
\* never panic: every outcome is Ok or an Err, compact peers whose length
\* is no multiple of 6 being an Err, so that Peer::from_bytes only ever
\* gets 6 bytes
C30_NoPanic ==
    (ParsedBy("TrackerResponse") \/ ParsedBy("TrackerScrapeResponse")) =>
        /\ Out.res \in {"Ok", "Err"}
        /\ (ParsedBy("TrackerResponse") /\ IsOneDictionary
               /\ KeyPeers \in DOMAIN Top.dict
               /\ Top.dict[KeyPeers].tag \in {"Bytes", "String"}
               /\ Len(Top.dict[KeyPeers].bytes) % 6 # 0) => Out.res = "Err"

\* compact peers of two records that are not UTF-8, hence Bytes, have been
\* parsed into two peers
C30_Witness ==
    /\ ParsedBy("TrackerResponse") /\ IsOneDictionary
    /\ KeyPeers \in DOMAIN Top.dict /\ Top.dict[KeyPeers].tag = "Bytes"
    /\ Len(Top.dict[KeyPeers].bytes) = 12
    /\ Out.res = "Ok" /\ Len(Out.val.peers) = 2

====
